---- MODULE Spec2Model ----
(***************************************************************************)
(* OneGov FIT: the schema-driven JSON extraction engine                    *)
(* (R01_JSON_BackendStructure.js), the cell parsers (B01_main.js and the   *)
(* data manager) and the OneGovDataManager entity cache.                   *)
(*                                                                         *)
(* JavaScript values are records [t, n, s, k]: t is the type tag, n the    *)
(* number (or 1/0 for a boolean), s the text of a string as a sequence of  *)
(* symbols, k the own properties of an object or array in property order,  *)
(* each a record [key, val].  A text is a sequence of symbols; a symbol is *)
(* one character, or one whole identifier of the registry written as a     *)
(* single symbol ("total_obligated"); no operation of the model splits an  *)
(* identifier symbol.                                                      *)
(***************************************************************************)
EXTENDS Integers, Sequences, FiniteSets, TLC

----------------------------------------------------------------------------
(* JavaScript values                                                       *)

Undef == [t |-> "undefined", n |-> 0, s |-> <<>>, k |-> <<>>]
JNull == [t |-> "null", n |-> 0, s |-> <<>>, k |-> <<>>]
Num(x) == [t |-> "number", n |-> x, s |-> <<>>, k |-> <<>>]
Str(cs) == [t |-> "string", n |-> 0, s |-> cs, k |-> <<>>]
NaN == [t |-> "number", n |-> 0, s |-> <<"NaN">>, k |-> <<>>]
Bool(b) == [t |-> "boolean", n |-> IF b THEN 1 ELSE 0, s |-> <<>>, k |-> <<>>]
Obj(entries) == [t |-> "object", n |-> 0, s |-> <<>>, k |-> entries]
Arr(entries) == [t |-> "array", n |-> 0, s |-> <<>>, k |-> entries]
Entry(key, val) == [key |-> key, val |-> val]

\* const x = e; ...: the value of e under the name x in what follows.
Let(e, F(_)) == F(e)

\* ToBoolean: undefined, null, 0, NaN, "" and false are falsy.
Truthy(v) ==
  CASE v.t \in {"undefined", "null"} -> FALSE
    [] v.t = "number" -> v.n # 0 /\ v # NaN
    [] v.t = "boolean" -> v.n # 0
    [] v.t = "string" -> v.s # <<>>
    [] OTHER -> TRUE

\* typeof: null, plain objects and arrays are all "object".
TypeOf(v) ==
  CASE v.t \in {"null", "object", "array"} -> "object"
    [] OTHER -> v.t

Digits == <<"0", "1", "2", "3", "4", "5", "6", "7", "8", "9">>
IsDigit(c) == \E d \in 1..10 : Digits[d] = c
DigitVal(c) == (CHOOSE d \in 1..10 : Digits[d] = c) - 1

\* The decimal text of a natural number.
RECURSIVE NatToText(_)
NatToText(x) ==
  IF x < 10 THEN <<Digits[x + 1]>> ELSE Append(NatToText(x \div 10), Digits[(x % 10) + 1])

\* v[key] for a value v that is neither undefined nor null: an own property
\* of an object or array, the length of an array or string, one character
\* of a string.
GetProp(v, key) ==
  LET hit == {i \in 1..Len(v.k) : v.k[i].key = key}
  IN CASE v.t \in {"object", "array"} /\ hit # {} -> v.k[CHOOSE i \in hit : TRUE].val
       [] v.t = "array" /\ key = <<"length">> -> Num(Len(v.k))
       [] v.t = "string" /\ key = <<"length">> -> Num(Len(v.s))
       [] v.t = "string" /\ Len(key) = 1 /\ IsDigit(key[1]) /\ DigitVal(key[1]) < Len(v.s)
            -> Str(<<v.s[DigitVal(key[1]) + 1]>>)
       [] OTHER -> Undef

\* Object.keys(v).length
KeyCount(v) ==
  CASE v.t \in {"object", "array"} -> Len(v.k)
    [] v.t = "string" -> Len(v.s)
    [] OTHER -> 0

----------------------------------------------------------------------------
(* Text: String.prototype.trim, split('.') and JSON.parse                  *)

IsWs(c) == c \in {" ", "\n", "\t"}

RECURSIVE TrimLeft(_)
TrimLeft(s) == IF s # <<>> /\ IsWs(Head(s)) THEN TrimLeft(Tail(s)) ELSE s

RECURSIVE TrimRight(_)
TrimRight(s) ==
  IF s # <<>> /\ IsWs(s[Len(s)]) THEN TrimRight(SubSeq(s, 1, Len(s) - 1)) ELSE s

Trim(s) == TrimRight(TrimLeft(s))

\* path.split('.'): the pieces between the dots, empty pieces included.
RECURSIVE SplitFrom(_, _, _)
SplitFrom(s, i, piece) ==
  IF i > Len(s) THEN <<piece>>
  ELSE IF s[i] = "." THEN <<piece>> \o SplitFrom(s, i + 1, <<>>)
  ELSE SplitFrom(s, i + 1, Append(piece, s[i]))

SplitDots(s) == SplitFrom(s, 1, <<>>)

\* Results of the recursive-descent parser: ok, the value, the next index.
PFail == [ok |-> FALSE, v |-> Undef, i |-> 0]
POk(v, i) == [ok |-> TRUE, v |-> v, i |-> i]

RECURSIVE SkipWs(_, _)
SkipWs(s, i) == IF i <= Len(s) /\ IsWs(s[i]) THEN SkipWs(s, i + 1) ELSE i

\* TRUE when the symbols of word stand in s from index i on.
Matches(s, i, word) ==
  /\ i + Len(word) - 1 <= Len(s)
  /\ \A j \in 1..Len(word) : s[i + j - 1] = word[j]

\* A JSON string starting at the quote s[i]; the model's texts carry no
\* backslash escapes, and a raw control character inside a string is an error.
ParseString(s, i) ==
  IF \A q \in (i + 1)..Len(s) : s[q] # "\"" THEN PFail
  ELSE Let(CHOOSE c \in (i + 1)..Len(s) :
             s[c] = "\"" /\ \A d \in (i + 1)..(c - 1) : s[d] # "\"",
           LAMBDA q :
             IF \E j \in (i + 1)..(q - 1) : s[j] \in {"\n", "\t"}
             THEN PFail
             ELSE POk(Str(SubSeq(s, i + 1, q - 1)), q + 1))

RECURSIVE DigitsEnd(_, _)
DigitsEnd(s, i) == IF i <= Len(s) /\ IsDigit(s[i]) THEN DigitsEnd(s, i + 1) ELSE i

RECURSIVE DigitsValue(_, _, _)
DigitsValue(s, i, j) ==
  IF j < i THEN 0 ELSE DigitsValue(s, i, j - 1) * 10 + DigitVal(s[j])

\* A JSON integer: an optional minus, then 0 or a digit string without a
\* leading zero (the model's texts carry no fraction or exponent).
ParseNumber(s, i) ==
  Let(IF s[i] = "-" THEN i + 1 ELSE i, LAMBDA d :
    Let(DigitsEnd(s, d), LAMBDA e :
      IF e = d THEN PFail
      ELSE IF s[d] = "0" /\ e > d + 1 THEN POk(Num(0), d + 1)
      ELSE POk(Num(IF d > i THEN 0 - DigitsValue(s, d, e - 1)
                   ELSE DigitsValue(s, d, e - 1)), e)))

\* An own property key that is a canonical array index ("0", "7", "2022"):
\* such keys come first in property order, in ascending numeric order.
IsIndexKey(key) ==
  /\ Len(key) >= 1
  /\ \A j \in 1..Len(key) : IsDigit(key[j])
  /\ (Len(key) = 1 \/ key[1] # "0")

IndexOf(key) == DigitsValue(key, 1, Len(key))

\* obj[key] = val on the own properties of an object: an existing key keeps
\* its place and takes the new value; a new index key goes after the smaller
\* index keys; any other new key goes last.
PutEntry(entries, key, val) ==
  IF \E i \in 1..Len(entries) : entries[i].key = key
  THEN [i \in 1..Len(entries) |->
          IF entries[i].key = key THEN Entry(key, val) ELSE entries[i]]
  ELSE IF IsIndexKey(key)
  THEN Let(Cardinality({i \in 1..Len(entries) :
                          IsIndexKey(entries[i].key) /\ IndexOf(entries[i].key) < IndexOf(key)}),
           LAMBDA n :
             SubSeq(entries, 1, n) \o <<Entry(key, val)>> \o SubSeq(entries, n + 1, Len(entries)))
  ELSE Append(entries, Entry(key, val))

RECURSIVE ParseValue(_, _)
RECURSIVE ParseMembers(_, _, _)
RECURSIVE ParseElements(_, _, _)

\* After a member or element at index c: a comma goes on with more(c + 1),
\* the closing symbol ends the container.
AfterItem(s, c, closing, more(_), ended) ==
  IF c > Len(s) THEN PFail
  ELSE IF s[c] = "," THEN more(c + 1)
  ELSE IF s[c] = closing THEN POk(ended, c + 1)
  ELSE PFail

\* members of an object, the opening brace already consumed; i is at a key.
ParseMembers(s, i, acc) ==
  Let(SkipWs(s, i), LAMBDA a :
    IF a > Len(s) \/ s[a] # "\"" THEN PFail
    ELSE Let(ParseString(s, a), LAMBDA key :
      IF ~key.ok THEN PFail
      ELSE Let(SkipWs(s, key.i), LAMBDA b :
        IF b > Len(s) \/ s[b] # ":" THEN PFail
        ELSE Let(ParseValue(s, b + 1), LAMBDA val :
          IF ~val.ok THEN PFail
          ELSE Let(PutEntry(acc, key.v.s, val.v), LAMBDA acc2 :
                 AfterItem(s, SkipWs(s, val.i), "}",
                           LAMBDA j : ParseMembers(s, j, acc2), Obj(acc2)))))))

\* elements of an array, the opening bracket already consumed.
ParseElements(s, i, acc) ==
  Let(ParseValue(s, i), LAMBDA val :
    IF ~val.ok THEN PFail
    ELSE Let(Append(acc, Entry(NatToText(Len(acc)), val.v)), LAMBDA acc2 :
           AfterItem(s, SkipWs(s, val.i), "]",
                     LAMBDA j : ParseElements(s, j, acc2), Arr(acc2))))

\* s[a] opens a container that closes at once, after white space only.
ClosesAt(s, a, closing) ==
  Let(SkipWs(s, a + 1), LAMBDA b : IF b <= Len(s) /\ s[b] = closing THEN b ELSE 0)

ParseValue(s, i) ==
  Let(SkipWs(s, i), LAMBDA a :
    IF a > Len(s) THEN PFail
    ELSE CASE s[a] = "{" ->
                Let(ClosesAt(s, a, "}"), LAMBDA b :
                  IF b # 0 THEN POk(Obj(<<>>), b + 1) ELSE ParseMembers(s, a + 1, <<>>))
           [] s[a] = "[" ->
                Let(ClosesAt(s, a, "]"), LAMBDA b :
                  IF b # 0 THEN POk(Arr(<<>>), b + 1) ELSE ParseElements(s, a + 1, <<>>))
           [] s[a] = "\"" -> ParseString(s, a)
           [] s[a] = "-" \/ IsDigit(s[a]) -> ParseNumber(s, a)
           [] Matches(s, a, <<"t", "r", "u", "e">>) -> POk(Bool(TRUE), a + 4)
           [] Matches(s, a, <<"f", "a", "l", "s", "e">>) -> POk(Bool(FALSE), a + 5)
           [] Matches(s, a, <<"n", "u", "l", "l">>) -> POk(JNull, a + 4)
           [] OTHER -> PFail)

\* Outcome of a call: the value returned, or raised = TRUE when it throws.
Returned(v) == [raised |-> FALSE, v |-> v]
Raised == [raised |-> TRUE, v |-> Undef]

\* JSON.parse(text): one value, nothing but whitespace after it; a
\* SyntaxError otherwise.
JSONParse(s) ==
  Let(ParseValue(s, 1), LAMBDA r :
    IF r.ok /\ SkipWs(s, r.i) = Len(s) + 1 THEN Returned(r.v) ELSE Raised)

----------------------------------------------------------------------------
(* Conversions: String(v), parseFloat(v), a + b, Object.entries(v)         *)

RECURSIVE JoinTexts(_)
JoinTexts(texts) ==
  IF texts = <<>> THEN <<>>
  ELSE IF Len(texts) = 1 THEN texts[1]
  ELSE texts[1] \o <<",">> \o JoinTexts(Tail(texts))

\* String(v)
RECURSIVE ToStr(_)
ToStr(v) ==
  CASE v.t = "string" -> v.s
    [] v = NaN -> <<"NaN">>
    [] v.t = "number" -> IF v.n < 0 THEN <<"-">> \o NatToText(0 - v.n) ELSE NatToText(v.n)
    [] v.t = "boolean" -> IF v.n = 1 THEN <<"t", "r", "u", "e">> ELSE <<"f", "a", "l", "s", "e">>
    [] v.t = "null" -> <<"n", "u", "l", "l">>
    [] v.t = "object" -> <<"[object Object]">>
    [] v.t = "array" ->
         JoinTexts([i \in 1..Len(v.k) |->
                      IF v.k[i].val.t = "null" THEN <<>> ELSE ToStr(v.k[i].val)])
    [] OTHER -> <<"undefined">>

\* parseFloat(v): the integer that the text of v starts with, else NaN.
ParseFloat(v) ==
  Let(TrimLeft(ToStr(v)), LAMBDA text :
    Let(IF text # <<>> /\ text[1] = "-" THEN 2 ELSE 1, LAMBDA d :
      Let(DigitsEnd(text, d), LAMBDA e :
        IF e = d THEN NaN
        ELSE Num(IF d = 2 THEN 0 - DigitsValue(text, d, e - 1)
                 ELSE DigitsValue(text, d, e - 1)))))

\* a + b: text concatenation when either side is a string, an object or an
\* array; numeric addition otherwise (true is 1, null is 0, undefined is NaN).
JsAdd(a, b) ==
  LET textual(v) == v.t \in {"string", "object", "array"}
      num(v) == IF v.t = "undefined" THEN NaN ELSE Num(v.n)
  IN IF textual(a) \/ textual(b) THEN Str(ToStr(a) \o ToStr(b))
     ELSE IF a = NaN \/ b = NaN \/ a.t = "undefined" \/ b.t = "undefined" THEN NaN
     ELSE Num(num(a).n + num(b).n)

\* a || b
JsOr(a, b) == IF Truthy(a) THEN a ELSE b

\* Object.entries(v) as a sequence of [key, val]: the own properties of an
\* object or array, the characters of a string, nothing for other values.
Entries(v) ==
  CASE v.t \in {"object", "array"} -> v.k
    [] v.t = "string" ->
         [i \in 1..Len(v.s) |-> Entry(NatToText(i - 1), Str(<<v.s[i]>>))]
    [] OTHER -> <<>>

\* v.field raises a TypeError when v is undefined or null.
Nullish(v) == v.t \in {"undefined", "null"}

K(word) == <<word>>

----------------------------------------------------------------------------
(* Cell parsing                                                            *)

EmptyObjectText == <<"{", "}">>
EmptyArrayText == <<"[", "]">>

\* JSON.parse with no catch block around it.
ParseOrNull_NoCatch(text) == JSONParse(text)

\* JSON.parse inside try/catch: the catch block returns null.
ParseOrNull(text) ==
  Let(JSONParse(text), LAMBDA r : IF r.raised THEN Returned(JNull) ELSE r)

\* OneGovDataManager.parseJSON(value)
parseJSON(value) ==
  IF ~Truthy(value) THEN Returned(JNull)
  ELSE IF TypeOf(value) = "object" THEN Returned(value)
  ELSE Let(Trim(ToStr(value)), LAMBDA strValue :
         IF strValue \in {<<>>, EmptyObjectText, EmptyArrayText}
         THEN Returned(JNull)
         ELSE ParseOrNull(strValue))

\* parseJSONColumn(value) of B01_main.js
parseJSONColumn(value) ==
  IF ~Truthy(value) THEN Returned(JNull)
  ELSE IF TypeOf(value) = "object" THEN Returned(value)
  ELSE IF TypeOf(value) = "string"
  THEN Let(Trim(value.s), LAMBDA cleanValue :
         IF cleanValue \in {<<>>, EmptyObjectText, EmptyArrayText}
         THEN Returned(JNull)
         ELSE ParseOrNull(cleanValue))
  ELSE Returned(JNull)

\* parseAndValidateJson(jsonString): {isValid, data, error}; error is the
\* kind of message ("" for null).
parseAndValidateJson(jsonString) ==
  IF ~Truthy(jsonString) \/ TypeOf(jsonString) # "string"
  THEN [isValid |-> FALSE, data |-> JNull, error |-> "Input is not a string"]
  ELSE Let(Trim(jsonString.s), LAMBDA trimmed :
         IF trimmed = <<>> \/ trimmed[1] # "{"
         THEN [isValid |-> FALSE, data |-> JNull, error |-> "String does not start with {"]
         ELSE Let(JSONParse(trimmed), LAMBDA r :
                IF r.raised
                THEN [isValid |-> FALSE, data |-> JNull, error |-> "SyntaxError"]
                ELSE [isValid |-> TRUE, data |-> r.v, error |-> ""]))

----------------------------------------------------------------------------
(* Path Resolver                                                           *)

RECURSIVE WalkPath(_, _)
WalkPath(current, keys) ==
  IF keys = <<>> THEN current
  ELSE WalkPath(IF Truthy(current) THEN GetProp(current, Head(keys)) ELSE Undef,
                Tail(keys))

\* getNestedValue with the test of a step weakened from
\* current[key] !== undefined to the truth of current[key].
getNestedValue_FalsyAsAbsent(obj, path) ==
  IF path = <<>> \/ ~Truthy(obj) THEN Undef
  ELSE Let(WalkPath(obj, SplitDots(path)), LAMBDA v : IF Truthy(v) THEN v ELSE Undef)

\* getNestedValue(obj, path); path is a text, <<>> for '' and for null.
getNestedValue(obj, path) ==
  IF path = <<>> \/ ~Truthy(obj) THEN Undef
  ELSE WalkPath(obj, SplitDots(path))


----------------------------------------------------------------------------
(* Schema Registry: COLUMN_SCHEMAS.  A path is a text; <<>> stands for a    *)
(* null path and "" for a null categoryValueType.                          *)

\* COLUMN_SCHEMAS: the schema of every JSON column, under its key.
Registry ==
  [obligations |->
     [column |-> "D", columnIndex |-> 3,
      headerName |-> "Obligations",
      structurePattern |-> "PATTERN_A_SIMPLE_TOTALS", dataSource |-> "FAS",
      primaryValuePath |-> <<"total_obligated">>,
      timeSeriesPath |-> <<"fiscal_year_obligations">>,
      categoriesPath |-> <<>>,
      categoryValueType |-> "",
      arrayItemKeyField |-> <<>>,
      arrayItemValueField |-> <<>>,
      itemValueField |-> <<>>,
      requiredFields |-> <<<<"source_file">>,
          <<"fiscal_year_obligations">>,
          <<"total_obligated">>,
          <<"processed_date">>>>],
   smallBusiness |->
     [column |-> "E", columnIndex |-> 4,
      headerName |-> "Small Business",
      structurePattern |-> "PATTERN_B_SUMMARY_WITH_OBJECT_MAP", dataSource |-> "FAS",
      primaryValuePath |-> <<"summary", ".", "total_all_obligations">>,
      timeSeriesPath |-> <<>>,
      categoriesPath |-> <<"business_size_summaries">>,
      categoryValueType |-> "object_map",
      arrayItemKeyField |-> <<>>,
      arrayItemValueField |-> <<>>,
      itemValueField |-> <<>>,
      requiredFields |-> <<<<"source_file">>,
          <<"summary">>,
          <<"business_size_summaries">>,
          <<"processed_date">>>>],
   sumTier |->
     [column |-> "F", columnIndex |-> 5,
      headerName |-> "SUM Tier ",
      structurePattern |-> "PATTERN_B_SUMMARY_WITH_OBJECT_MAP", dataSource |-> "FAS",
      primaryValuePath |-> <<"summary", ".", "total_all_obligations">>,
      timeSeriesPath |-> <<>>,
      categoriesPath |-> <<"tier_summaries">>,
      categoryValueType |-> "object_map",
      arrayItemKeyField |-> <<>>,
      arrayItemValueField |-> <<>>,
      itemValueField |-> <<>>,
      requiredFields |-> <<<<"source_file">>,
          <<"summary">>,
          <<"tier_summaries">>,
          <<"processed_date">>>>],
   sumType |->
     [column |-> "G", columnIndex |-> 6,
      headerName |-> "Sum Type",
      structurePattern |-> "PATTERN_B_SUMMARY_WITH_OBJECT_MAP", dataSource |-> "FAS",
      primaryValuePath |-> <<"summary", ".", "total_all_obligations">>,
      timeSeriesPath |-> <<>>,
      categoriesPath |-> <<"sum_type_summaries">>,
      categoryValueType |-> "object_map",
      arrayItemKeyField |-> <<>>,
      arrayItemValueField |-> <<>>,
      itemValueField |-> <<>>,
      requiredFields |-> <<<<"source_file">>,
          <<"summary">>,
          <<"sum_type_summaries">>,
          <<"processed_date">>>>],
   contractVehicle |->
     [column |-> "H", columnIndex |-> 7,
      headerName |-> "Contract Vehicle",
      structurePattern |-> "PATTERN_B_SUMMARY_WITH_OBJECT_MAP", dataSource |-> "FAS",
      primaryValuePath |-> <<"summary", ".", "total_all_obligations">>,
      timeSeriesPath |-> <<>>,
      categoriesPath |-> <<"top_contract_summaries">>,
      categoryValueType |-> "object_map",
      arrayItemKeyField |-> <<>>,
      arrayItemValueField |-> <<>>,
      itemValueField |-> <<>>,
      requiredFields |-> <<<<"source_file">>,
          <<"summary">>,
          <<"top_contract_summaries">>,
          <<"processed_date">>>>],
   fundingDepartment |->
     [column |-> "I", columnIndex |-> 8,
      headerName |-> "Funding Department",
      structurePattern |-> "PATTERN_B_SUMMARY_WITH_OBJECT_MAP", dataSource |-> "FAS",
      primaryValuePath |-> <<"summary", ".", "total_all_departments">>,
      timeSeriesPath |-> <<>>,
      categoriesPath |-> <<"top_10_department_summaries">>,
      categoryValueType |-> "object_map",
      arrayItemKeyField |-> <<>>,
      arrayItemValueField |-> <<>>,
      itemValueField |-> <<>>,
      requiredFields |-> <<<<"source_file">>,
          <<"summary">>,
          <<"top_10_department_summaries">>,
          <<"processed_date">>>>],
   oneGovDiscountedProducts |->
     [column |-> "J", columnIndex |-> 9,
      headerName |-> "OneGov Discounted Products",
      structurePattern |-> "PATTERN_B_SUMMARY_WITH_OBJECT_MAP", dataSource |-> "FAS",
      primaryValuePath |-> <<"summary", ".", "total_obligations_with_discounts">>,
      timeSeriesPath |-> <<>>,
      categoriesPath |-> <<"discount_categories">>,
      categoryValueType |-> "object_map",
      arrayItemKeyField |-> <<>>,
      arrayItemValueField |-> <<>>,
      itemValueField |-> <<>>,
      requiredFields |-> <<<<"source_file">>,
          <<"discount_status">>,
          <<"summary">>,
          <<"discount_categories">>,
          <<"processed_date">>>>],
   topRefPiid |->
     [column |-> "K", columnIndex |-> 10,
      headerName |-> "Top Ref_PIID",
      structurePattern |-> "PATTERN_C_SUMMARY_WITH_ARRAY", dataSource |-> "FAS",
      primaryValuePath |-> <<"total_obligations">>,
      timeSeriesPath |-> <<"yearly_totals">>,
      categoriesPath |-> <<"top_10_reference_piids">>,
      categoryValueType |-> "array",
      arrayItemKeyField |-> <<"reference_piid">>,
      arrayItemValueField |-> <<"dollars_obligated">>,
      itemValueField |-> <<>>,
      requiredFields |-> <<<<"source_file">>,
          <<"total_obligations">>,
          <<"unique_ref_piids">>,
          <<"fiscal_years_covered">>,
          <<"yearly_totals">>,
          <<"top_10_reference_piids">>,
          <<"processed_date">>>>],
   topPiid |->
     [column |-> "L", columnIndex |-> 11,
      headerName |-> "Top PIID",
      structurePattern |-> "PATTERN_C_SUMMARY_WITH_ARRAY", dataSource |-> "FAS",
      primaryValuePath |-> <<"total_obligations">>,
      timeSeriesPath |-> <<"yearly_totals">>,
      categoriesPath |-> <<"top_10_piids">>,
      categoryValueType |-> "array",
      arrayItemKeyField |-> <<"piid">>,
      arrayItemValueField |-> <<"dollars_obligated">>,
      itemValueField |-> <<>>,
      requiredFields |-> <<<<"source_file">>,
          <<"total_obligations">>,
          <<"unique_piids">>,
          <<"fiscal_years_covered">>,
          <<"yearly_totals">>,
          <<"top_10_piids">>,
          <<"processed_date">>>>],
   activeContracts |->
     [column |-> "M", columnIndex |-> 12,
      headerName |-> "Active Contracts",
      structurePattern |-> "PATTERN_D_NESTED_FISCAL_YEAR", dataSource |-> "FAS",
      primaryValuePath |-> <<"summary", ".", "total_obligations">>,
      timeSeriesPath |-> <<>>,
      categoriesPath |-> <<"expiring_by_quarter">>,
      categoryValueType |-> "object_map",
      arrayItemKeyField |-> <<>>,
      arrayItemValueField |-> <<>>,
      itemValueField |-> <<>>,
      requiredFields |-> <<<<"source_file">>,
          <<"summary">>,
          <<"expiring_by_quarter">>,
          <<"processed_date">>>>],
   expiringDiscountedProducts |->
     [column |-> "N", columnIndex |-> 13,
      headerName |-> "Expiring OneGov Discounted Products",
      structurePattern |-> "PATTERN_E_NESTED_ENTITY", dataSource |-> "FAS",
      primaryValuePath |-> <<"summary", ".", "grand_total_all_obligations">>,
      timeSeriesPath |-> <<>>,
      categoriesPath |-> <<"discount_contracts_expiring_by_quarter">>,
      categoryValueType |-> "object_map",
      arrayItemKeyField |-> <<>>,
      arrayItemValueField |-> <<>>,
      itemValueField |-> <<>>,
      requiredFields |-> <<<<"source_file">>,
          <<"sheet_type">>,
          <<"grouped_by">>,
          <<"discount_report_status">>,
          <<"summary">>,
          <<"discount_contracts_expiring_by_quarter">>,
          <<"processed_date">>>>],
   aiProduct |->
     [column |-> "O", columnIndex |-> 14,
      headerName |-> "AI Product",
      structurePattern |-> "PATTERN_D_NESTED_FISCAL_YEAR", dataSource |-> "FAS",
      primaryValuePath |-> <<"summary", ".", "grand_total_obligations">>,
      timeSeriesPath |-> <<>>,
      categoriesPath |-> <<"fiscal_year_summaries">>,
      categoryValueType |-> "object_map",
      arrayItemKeyField |-> <<>>,
      arrayItemValueField |-> <<>>,
      itemValueField |-> <<>>,
      requiredFields |-> <<<<"source_file">>,
          <<"ai_product_status">>,
          <<"summary">>,
          <<"fiscal_year_summaries">>,
          <<"processed_date">>>>],
   aiCategory |->
     [column |-> "P", columnIndex |-> 15,
      headerName |-> "AI Category",
      structurePattern |-> "PATTERN_D_NESTED_FISCAL_YEAR", dataSource |-> "FAS",
      primaryValuePath |-> <<"summary", ".", "grand_total_obligations">>,
      timeSeriesPath |-> <<>>,
      categoriesPath |-> <<"fiscal_year_summaries">>,
      categoryValueType |-> "object_map",
      arrayItemKeyField |-> <<>>,
      arrayItemValueField |-> <<>>,
      itemValueField |-> <<>>,
      requiredFields |-> <<<<"source_file">>,
          <<"ai_category_status">>,
          <<"summary">>,
          <<"fiscal_year_summaries">>,
          <<"processed_date">>>>],
   topBicProducts |->
     [column |-> "Q", columnIndex |-> 16,
      headerName |-> "Top BIC Products",
      structurePattern |-> "PATTERN_C_SUMMARY_WITH_ARRAY", dataSource |-> "BIC",
      primaryValuePath |-> <<"summary", ".", "total_all_products">>,
      timeSeriesPath |-> <<"yearly_totals">>,
      categoriesPath |-> <<"top_25_products">>,
      categoryValueType |-> "array",
      arrayItemKeyField |-> <<"product_name">>,
      arrayItemValueField |-> <<"total_price">>,
      itemValueField |-> <<>>,
      requiredFields |-> <<<<"source_file">>,
          <<"summary">>,
          <<"yearly_totals">>,
          <<"top_25_products">>,
          <<"processed_date">>>>],
   reseller |->
     [column |-> "R", columnIndex |-> 17,
      headerName |-> "Reseller ",
      structurePattern |-> "PATTERN_B_SUMMARY_WITH_OBJECT_MAP", dataSource |-> "FAS",
      primaryValuePath |-> <<"summary", ".", "total_all_resellers">>,
      timeSeriesPath |-> <<>>,
      categoriesPath |-> <<"top_15_reseller_summaries">>,
      categoryValueType |-> "object_map",
      arrayItemKeyField |-> <<>>,
      arrayItemValueField |-> <<>>,
      itemValueField |-> <<>>,
      requiredFields |-> <<<<"source_file">>,
          <<"summary">>,
          <<"top_15_reseller_summaries">>,
          <<"processed_date">>>>],
   bicReseller |->
     [column |-> "S", columnIndex |-> 18,
      headerName |-> "BIC Reseller",
      structurePattern |-> "PATTERN_C_SUMMARY_WITH_ARRAY", dataSource |-> "BIC",
      primaryValuePath |-> <<"summary", ".", "total_all_resellers">>,
      timeSeriesPath |-> <<"yearly_totals">>,
      categoriesPath |-> <<"top_15_resellers">>,
      categoryValueType |-> "array",
      arrayItemKeyField |-> <<"vendor_name">>,
      arrayItemValueField |-> <<"total_sales">>,
      itemValueField |-> <<>>,
      requiredFields |-> <<<<"source_file">>,
          <<"summary">>,
          <<"yearly_totals">>,
          <<"top_15_resellers">>,
          <<"processed_date">>>>],
   bicOem |->
     [column |-> "T", columnIndex |-> 19,
      headerName |-> "BIC OEM",
      structurePattern |-> "PATTERN_C_SUMMARY_WITH_ARRAY", dataSource |-> "BIC",
      primaryValuePath |-> <<"summary", ".", "total_all_manufacturers">>,
      timeSeriesPath |-> <<"yearly_totals">>,
      categoriesPath |-> <<"top_15_manufacturers">>,
      categoryValueType |-> "array",
      arrayItemKeyField |-> <<"manufacturer_name">>,
      arrayItemValueField |-> <<"total_sales">>,
      itemValueField |-> <<>>,
      requiredFields |-> <<<<"source_file">>,
          <<"summary">>,
          <<"yearly_totals">>,
          <<"top_15_manufacturers">>,
          <<"processed_date">>>>],
   fasOem |->
     [column |-> "U", columnIndex |-> 20,
      headerName |-> "FAS OEM",
      structurePattern |-> "PATTERN_B_SUMMARY_WITH_OBJECT_MAP", dataSource |-> "FAS",
      primaryValuePath |-> <<"summary", ".", "total_all_oems">>,
      timeSeriesPath |-> <<>>,
      categoriesPath |-> <<"top_10_oem_summaries">>,
      categoryValueType |-> "object_map",
      arrayItemKeyField |-> <<>>,
      arrayItemValueField |-> <<>>,
      itemValueField |-> <<"total_obligations">>,
      requiredFields |-> <<<<"source_file">>,
          <<"summary">>,
          <<"top_10_oem_summaries">>,
          <<"processed_date">>>>],
   fundingAgency |->
     [column |-> "V", columnIndex |-> 21,
      headerName |-> "Funding Agency",
      structurePattern |-> "PATTERN_B_SUMMARY_WITH_OBJECT_MAP", dataSource |-> "FAS",
      primaryValuePath |-> <<"summary", ".", "total_all_agencies">>,
      timeSeriesPath |-> <<>>,
      categoriesPath |-> <<"top_10_agency_summaries">>,
      categoryValueType |-> "object_map",
      arrayItemKeyField |-> <<>>,
      arrayItemValueField |-> <<>>,
      itemValueField |-> <<>>,
      requiredFields |-> <<<<"source_file">>,
          <<"summary">>,
          <<"top_10_agency_summaries">>,
          <<"processed_date">>>>],
   bicTopProductsPerAgency |->
     [column |-> "W", columnIndex |-> 22,
      headerName |-> "BIC Top Products per Agency",
      structurePattern |-> "PATTERN_E_NESTED_ENTITY", dataSource |-> "BIC",
      primaryValuePath |-> <<"summary", ".", "grand_total">>,
      timeSeriesPath |-> <<"yearly_totals">>,
      categoriesPath |-> <<"top_10_agencies">>,
      categoryValueType |-> "object_map",
      arrayItemKeyField |-> <<>>,
      arrayItemValueField |-> <<>>,
      itemValueField |-> <<>>,
      requiredFields |-> <<<<"source_file">>,
          <<"summary">>,
          <<"yearly_totals">>,
          <<"top_10_agencies">>,
          <<"processed_date">>>>],
   oneGovTier |->
     [column |-> "X", columnIndex |-> 23,
      headerName |-> "OneGov Tier",
      structurePattern |-> "PATTERN_A_SIMPLE_TOTALS", dataSource |-> "CALCULATED",
      primaryValuePath |-> <<"total_obligated">>,
      timeSeriesPath |-> <<"fiscal_year_tiers">>,
      categoriesPath |-> <<>>,
      categoryValueType |-> "",
      arrayItemKeyField |-> <<>>,
      arrayItemValueField |-> <<>>,
      itemValueField |-> <<>>,
      requiredFields |-> <<<<"mode_tier">>,
          <<"overall_tier">>,
          <<"total_obligated">>,
          <<"formatted_total">>,
          <<"average_obligations_per_year">>,
          <<"fiscal_year_tiers">>,
          <<"tier_counts">>,
          <<"tier_summary">>,
          <<"tier_definitions">>,
          <<"processed_date">>>>],
   usaiProfile |->
     [column |-> "AC", columnIndex |-> 28,
      headerName |-> "USAi Profile",
      structurePattern |-> "PATTERN_F_FLAT_PROFILE", dataSource |-> "USAI",
      primaryValuePath |-> <<>>,
      timeSeriesPath |-> <<>>,
      categoriesPath |-> <<>>,
      categoryValueType |-> "",
      arrayItemKeyField |-> <<>>,
      arrayItemValueField |-> <<>>,
      itemValueField |-> <<>>,
      requiredFields |-> <<<<"oem_name">>>>]]

SchemaKeys == DOMAIN Registry

\* COLUMN_SCHEMAS[schemaKey], for a key of the registry.
COLUMN_SCHEMAS(schemaKey) == Registry[schemaKey]

KnownSchema(schemaKey) == schemaKey \in SchemaKeys

----------------------------------------------------------------------------
(* Pattern Extractors                                                      *)

\* getPrimaryValue without the lookup of the path
getPrimaryValue_Undefined(jsonData, schemaKey) == Undef

\* getPrimaryValue(jsonData, schemaKey)
getPrimaryValue(jsonData, schemaKey) ==
  IF ~KnownSchema(schemaKey) \/ COLUMN_SCHEMAS(schemaKey).primaryValuePath = <<>>
  THEN Undef
  ELSE getNestedValue(jsonData, COLUMN_SCHEMAS(schemaKey).primaryValuePath)

\* fyTotals[year] = value
AddYear_Overwrites(fyTotals, year, value) == PutEntry(fyTotals, year, value)

\* fyTotals[year] = (fyTotals[year] || 0) + value
AddYear(fyTotals, year, value) ==
  PutEntry(fyTotals, year, JsAdd(JsOr(GetProp(Obj(fyTotals), year), Num(0)), value))

\* Object.entries(fyBreakdown).forEach of the array branch; acc is the
\* outcome so far, holding fyTotals.
RECURSIVE AddBreakdown(_, _)
AddBreakdown(pairs, acc) ==
  IF pairs = <<>> \/ acc.raised THEN acc
  ELSE IF Nullish(Head(pairs).val) THEN Raised
  ELSE AddBreakdown(Tail(pairs),
         Returned(Obj(AddYear(acc.v.k, Head(pairs).key,
           JsOr(JsOr(JsOr(GetProp(Head(pairs).val, K("obligations")),
                          GetProp(Head(pairs).val, K("total_price"))),
                     GetProp(Head(pairs).val, K("total_sales"))),
                Num(0))))))

\* categories.forEach(item => ...) of the array branch
RECURSIVE AddItems(_, _)
AddItems(items, acc) ==
  IF items = <<>> \/ acc.raised THEN acc
  ELSE IF Nullish(Head(items).val) THEN Raised
  ELSE Let(GetProp(Head(items).val, K("fiscal_year_breakdown")), LAMBDA fyBreakdown :
         AddItems(Tail(items),
                  IF Truthy(fyBreakdown)
                  THEN AddBreakdown(Entries(fyBreakdown), acc)
                  ELSE acc))

\* Object.entries(categoryData.fiscal_years).forEach of the object-map branch
RECURSIVE AddFiscalYears(_, _)
AddFiscalYears(pairs, fyTotals) ==
  IF pairs = <<>> THEN fyTotals
  ELSE AddFiscalYears(Tail(pairs), AddYear(fyTotals, Head(pairs).key, Head(pairs).val))

\* Object.values(categories).forEach(categoryData => ...)
RECURSIVE AddCategories(_, _)
AddCategories(cats, acc) ==
  IF cats = <<>> \/ acc.raised THEN acc
  ELSE IF Nullish(Head(cats).val) THEN Raised
  ELSE Let(GetProp(Head(cats).val, K("fiscal_years")), LAMBDA fiscal_years :
         AddCategories(Tail(cats),
                       IF Truthy(fiscal_years)
                       THEN Returned(Obj(AddFiscalYears(Entries(fiscal_years), acc.v.k)))
                       ELSE acc))

\* getFiscalYearData(jsonData, schemaKey)
getFiscalYearData(jsonData, schemaKey) ==
  IF ~KnownSchema(schemaKey) THEN Returned(Undef)
  ELSE IF COLUMN_SCHEMAS(schemaKey).timeSeriesPath # <<>>
  THEN Returned(getNestedValue(jsonData, COLUMN_SCHEMAS(schemaKey).timeSeriesPath))
  ELSE IF COLUMN_SCHEMAS(schemaKey).categoriesPath # <<>>
  THEN Let(getNestedValue(jsonData, COLUMN_SCHEMAS(schemaKey).categoriesPath),
           LAMBDA categories :
             IF ~Truthy(categories) THEN Returned(Undef)
             ELSE Let(IF categories.t = "array"
                      THEN AddItems(categories.k, Returned(Obj(<<>>)))
                      ELSE AddCategories(Entries(categories), Returned(Obj(<<>>))),
                      LAMBDA fyTotals :
                        IF fyTotals.raised THEN Raised
                        ELSE IF Len(fyTotals.v.k) > 0 THEN fyTotals ELSE Returned(Undef)))
  ELSE Returned(Undef)

\* One element of the list getCategories returns.
Category(name, value, percentage, fiscalYears) ==
  Obj(<<Entry(K("name"), name), Entry(K("value"), value),
        Entry(K("percentage"), percentage), Entry(K("fiscalYears"), fiscalYears)>>)

\* categories.forEach(item => result.push(...)) of the array branch
RECURSIVE PushItems(_, _, _)
PushItems(items, schema, acc) ==
  IF items = <<>> \/ acc.raised THEN acc
  ELSE IF Nullish(Head(items).val) THEN Raised
  ELSE Let(Head(items).val, LAMBDA item :
         PushItems(Tail(items), schema,
           Returned(Append(acc.v,
             Category(GetProp(item, schema.arrayItemKeyField),
                      GetProp(item, schema.arrayItemValueField),
                      GetProp(item, K("percentage_of_total")),
                      JsOr(GetProp(item, K("fiscal_year_breakdown")), Obj(<<>>)))))))

\* Object.entries(categories).forEach(([name, data]) => result.push(...))
RECURSIVE PushEntries(_, _)
PushEntries(pairs, acc) ==
  IF pairs = <<>> \/ acc.raised THEN acc
  ELSE IF Nullish(Head(pairs).val) THEN Raised
  ELSE Let(Head(pairs).val, LAMBDA data :
         PushEntries(Tail(pairs),
           Returned(Append(acc.v,
             Category(Str(Head(pairs).key),
                      IF GetProp(data, K("total_obligations")) # Undef
                      THEN GetProp(data, K("total_obligations"))
                      ELSE GetProp(data, K("total")),
                      GetProp(data, K("percentage_of_total")),
                      JsOr(GetProp(data, K("fiscal_years")), Obj(<<>>)))))))

\* The array a list of values stands for: element i-1 under the key i-1.
RECURSIVE IndexEntries(_, _)
IndexEntries(list, i) ==
  IF i > Len(list) THEN <<>>
  ELSE <<Entry(NatToText(i - 1), list[i])>> \o IndexEntries(list, i + 1)

ArrayOf(list) == Arr(IndexEntries(list, 1))

\* getCategories(jsonData, schemaKey); calling forEach on a value that is
\* not an array raises a TypeError.
getCategories(jsonData, schemaKey) ==
  IF ~KnownSchema(schemaKey) \/ COLUMN_SCHEMAS(schemaKey).categoriesPath = <<>>
  THEN Returned(Arr(<<>>))
  ELSE Let(COLUMN_SCHEMAS(schemaKey), LAMBDA schema :
    Let(getNestedValue(jsonData, schema.categoriesPath), LAMBDA categories :
      IF ~Truthy(categories) THEN Returned(Arr(<<>>))
      ELSE Let(IF schema.categoryValueType = "array"
               THEN IF categories.t # "array" THEN Raised
                    ELSE PushItems(categories.k, schema, [raised |-> FALSE, v |-> <<>>])
               ELSE PushEntries(Entries(categories), [raised |-> FALSE, v |-> <<>>]),
               LAMBDA result :
                 IF result.raised THEN Raised ELSE Returned(ArrayOf(result.v)))))

\* value[k1] = val, or value[k1][k2] = val, for a path of one or two keys;
\* nothing for no path or an absent val.
Put(value, path, val) ==
  IF path = <<>> \/ val = Undef THEN value
  ELSE Let(SplitDots(path), LAMBDA keys :
    IF Len(keys) = 1 THEN Obj(PutEntry(value.k, keys[1], val))
    ELSE Obj(PutEntry(value.k, keys[1],
               Obj(PutEntry(IF GetProp(value, keys[1]).t = "object"
                            THEN GetProp(value, keys[1]).k ELSE <<>>,
                            keys[2], val)))))

\* (b.value || 0) - (a.value || 0): the difference of two numbers, NaN when
\* either side is no number.
CompareByValue(a, b) ==
  Let(JsOr(GetProp(b, K("value")), Num(0)), LAMBDA bv :
    Let(JsOr(GetProp(a, K("value")), Num(0)), LAMBDA av :
      IF av.t = "number" /\ bv.t = "number" /\ av # NaN /\ bv # NaN
      THEN Num(bv.n - av.n) ELSE NaN))

\* Array.prototype.sort with that comparator, one element at a time: the
\* sort is stable, and a comparator result of NaN counts as 0.
RECURSIVE InsertSorted(_, _)
InsertSorted(sorted, x) ==
  IF sorted = <<>> THEN <<x>>
  ELSE IF CompareByValue(Head(sorted), x) = NaN \/ CompareByValue(Head(sorted), x).n <= 0
  THEN <<Head(sorted)>> \o InsertSorted(Tail(sorted), x)
  ELSE <<x>> \o sorted

RECURSIVE SortByValue(_, _)
SortByValue(list, sorted) ==
  IF list = <<>> THEN sorted
  ELSE SortByValue(Tail(list), InsertSorted(sorted, Head(list)))

\* The values of an array in the order of their indices.
Elements(array) == [i \in 1..Len(array.k) |-> array.k[i].val]

\* getTopCategories storing its sorted list at the categories path of jsonData
getTopCategories_StoresSorted(jsonData, schemaKey, n) ==
  Let(getCategories(jsonData, schemaKey), LAMBDA categories :
    IF categories.raised THEN [raised |-> TRUE, v |-> Undef, jsonData |-> jsonData]
    ELSE Let(SortByValue(Elements(categories.v), <<>>), LAMBDA sorted :
      [raised |-> FALSE,
       v |-> ArrayOf(SubSeq(sorted, 1, IF n < Len(sorted) THEN n ELSE Len(sorted))),
       jsonData |-> IF sorted = <<>> THEN jsonData
                    ELSE Put(jsonData, COLUMN_SCHEMAS(schemaKey).categoriesPath,
                             ArrayOf(sorted))]))

\* getTopCategories(jsonData, schemaKey, n): the outcome of the call, and
\* jsonData as the call leaves it. sort() works in place on the array that
\* getCategories has built (const result = []), which shares no array with
\* jsonData.
getTopCategories(jsonData, schemaKey, n) ==
  Let(getCategories(jsonData, schemaKey), LAMBDA categories :
    IF categories.raised THEN [raised |-> TRUE, v |-> Undef, jsonData |-> jsonData]
    ELSE Let(SortByValue(Elements(categories.v), <<>>), LAMBDA sorted :
      [raised |-> FALSE,
       v |-> ArrayOf(SubSeq(sorted, 1, IF n < Len(sorted) THEN n ELSE Len(sorted))),
       jsonData |-> jsonData]))

\* extractNormalizedData(jsonData, schemaKey); reading processed_date of a
\* null or undefined jsonData raises a TypeError.
extractNormalizedData(jsonData, schemaKey) ==
  IF ~KnownSchema(schemaKey) THEN Returned(JNull)
  ELSE Let(COLUMN_SCHEMAS(schemaKey), LAMBDA schema :
    Let(getFiscalYearData(jsonData, schemaKey), LAMBDA fiscalYears :
      Let(getCategories(jsonData, schemaKey), LAMBDA categories :
        IF fiscalYears.raised \/ categories.raised \/ Nullish(jsonData) THEN Raised
        ELSE Returned(Obj(<<
               Entry(K("schema"), Obj(<<
                 Entry(K("column"), Str(K(schema.column))),
                 Entry(K("columnIndex"), Num(schema.columnIndex)),
                 Entry(K("headerName"), Str(K(schema.headerName))),
                 Entry(K("structurePattern"), Str(K(schema.structurePattern))),
                 Entry(K("dataSource"), Str(K(schema.dataSource)))>>)),
               Entry(K("primaryValue"), getPrimaryValue(jsonData, schemaKey)),
               Entry(K("fiscalYears"), fiscalYears.v),
               Entry(K("categories"), categories.v),
               Entry(K("metadata"), Obj(<<
                 Entry(K("processedDate"), GetProp(jsonData, K("processed_date"))),
                 Entry(K("sourceFile"), GetProp(jsonData, K("source_file")))>>))>>)))))


----------------------------------------------------------------------------
(* Structural Validator                                                    *)

\* schema.requiredFields.forEach: one error for each field whose path
\* resolves to undefined.
RECURSIVE MissingRequired(_, _)
MissingRequired(jsonData, fields) ==
  IF fields = <<>> THEN <<>>
  ELSE (IF getNestedValue(jsonData, Head(fields)) = Undef
        THEN <<K("Missing required field: ") \o Head(fields)>>
        ELSE <<>>) \o MissingRequired(jsonData, Tail(fields))

\* The warning about the primary value: its path not found, or not a number.
PrimaryWarnings(schema, primaryValue) ==
  IF schema.primaryValuePath = <<>> THEN <<>>
  ELSE IF primaryValue = Undef
  THEN <<K("Primary value path '") \o schema.primaryValuePath \o K("' not found")>>
  ELSE IF TypeOf(primaryValue) # "number"
  THEN <<K("Primary value is not a number: ") \o K(TypeOf(primaryValue))>>
  ELSE <<>>

\* The warning about a categories path that is not found.
CategoryWarnings(schema, categories) ==
  IF schema.categoriesPath # <<>> /\ categories = Undef
  THEN <<K("Categories path '") \o schema.categoriesPath \o K("' not found")>>
  ELSE <<>>

\* validateJsonStructure without its test of the kind of the categories.
CategoryErrors_None(schema, categories) == <<>>

\* The error about categories of the wrong kind: array against object map.
CategoryErrors(schema, categories) ==
  IF schema.categoriesPath = <<>> \/ categories = Undef THEN <<>>
  ELSE IF schema.categoryValueType = "array" /\ categories.t # "array"
  THEN <<K("Expected array at '") \o schema.categoriesPath \o K("', got ")
         \o K(TypeOf(categories))>>
  ELSE IF schema.categoryValueType = "object_map"
          /\ (categories.t = "array" \/ TypeOf(categories) # "object")
  THEN <<K("Expected object at '") \o schema.categoriesPath \o K("', got ")
         \o K(IF categories.t = "array" THEN "array" ELSE TypeOf(categories))>>
  ELSE <<>>

\* validateJsonStructure without its test of the schema: it reads
\* schema.requiredFields of undefined and raises a TypeError.
validateJsonStructure_NoSchemaTest(jsonData, schemaKey) ==
  IF ~KnownSchema(schemaKey) THEN Raised
  ELSE IF ~Truthy(jsonData) \/ TypeOf(jsonData) # "object"
  THEN [isValid |-> FALSE, errors |-> <<K("JSON data is null or not an object")>>,
        warnings |-> <<>>]
  ELSE Let(COLUMN_SCHEMAS(schemaKey), LAMBDA schema :
    Let(MissingRequired(jsonData, schema.requiredFields), LAMBDA missing :
      Let(PrimaryWarnings(schema, getNestedValue(jsonData, schema.primaryValuePath)),
          LAMBDA primaryWarn :
        Let(getNestedValue(jsonData, schema.categoriesPath), LAMBDA categories :
          Let(CategoryErrors(schema, categories), LAMBDA catErr :
            [isValid |-> missing = <<>> /\ catErr = <<>>,
             errors |-> missing \o catErr,
             warnings |-> primaryWarn \o CategoryWarnings(schema, categories)])))))

\* validateJsonStructure(jsonData, schemaKey): {isValid, errors, warnings}
validateJsonStructure(jsonData, schemaKey) ==
  IF ~KnownSchema(schemaKey)
  THEN [isValid |-> FALSE, errors |-> <<K("Unknown schema key: ") \o K(schemaKey)>>,
        warnings |-> <<>>]
  ELSE IF ~Truthy(jsonData) \/ TypeOf(jsonData) # "object"
  THEN [isValid |-> FALSE, errors |-> <<K("JSON data is null or not an object")>>,
        warnings |-> <<>>]
  ELSE Let(COLUMN_SCHEMAS(schemaKey), LAMBDA schema :
    Let(MissingRequired(jsonData, schema.requiredFields), LAMBDA missing :
      Let(PrimaryWarnings(schema, getNestedValue(jsonData, schema.primaryValuePath)),
          LAMBDA primaryWarn :
        Let(getNestedValue(jsonData, schema.categoriesPath), LAMBDA categories :
          Let(CategoryErrors(schema, categories), LAMBDA catErr :
            [isValid |-> missing = <<>> /\ catErr = <<>>,
             errors |-> missing \o catErr,
             warnings |-> primaryWarn \o CategoryWarnings(schema, categories)])))))

\* COLUMN_INDEX_MAP in property order: the index keys, then the letters.
COLUMN_INDEX_MAP ==
  << <<"3", "obligations">>, <<"4", "smallBusiness">>, <<"5", "sumTier">>,
     <<"6", "sumType">>, <<"7", "contractVehicle">>, <<"8", "fundingDepartment">>,
     <<"9", "oneGovDiscountedProducts">>, <<"10", "topRefPiid">>, <<"11", "topPiid">>,
     <<"12", "activeContracts">>, <<"13", "expiringDiscountedProducts">>,
     <<"14", "aiProduct">>, <<"15", "aiCategory">>, <<"16", "topBicProducts">>,
     <<"17", "reseller">>, <<"18", "bicReseller">>, <<"19", "bicOem">>,
     <<"20", "fasOem">>, <<"21", "fundingAgency">>, <<"22", "bicTopProductsPerAgency">>,
     <<"23", "oneGovTier">>, <<"28", "usaiProfile">>,
     <<"D", "obligations">>, <<"E", "smallBusiness">>, <<"F", "sumTier">>,
     <<"G", "sumType">>, <<"H", "contractVehicle">>, <<"I", "fundingDepartment">>,
     <<"J", "oneGovDiscountedProducts">>, <<"K", "topRefPiid">>, <<"L", "topPiid">>,
     <<"M", "activeContracts">>, <<"N", "expiringDiscountedProducts">>,
     <<"O", "aiProduct">>, <<"P", "aiCategory">>, <<"Q", "topBicProducts">>,
     <<"R", "reseller">>, <<"S", "bicReseller">>, <<"T", "bicOem">>,
     <<"U", "fasOem">>, <<"V", "fundingAgency">>, <<"W", "bicTopProductsPerAgency">>,
     <<"X", "oneGovTier">>, <<"AC", "usaiProfile">> >>

\* !isNaN(key): the keys of COLUMN_INDEX_MAP that are numbers.
IsNumericKey(key) ==
  key \in {"3", "4", "5", "6", "7", "8", "9", "10", "11", "12", "13", "14", "15",
           "16", "17", "18", "19", "20", "21", "22", "23", "28"}

\* The columns validateRowJsonColumns reports on: the letter keys.
LetterColumns == SelectSeq(COLUMN_INDEX_MAP, LAMBDA e : ~IsNumericKey(e[1]))
ColumnLetters == {LetterColumns[i][1] : i \in 1..Len(LetterColumns)}
SchemaOfLetter(letter) ==
  LetterColumns[CHOOSE i \in 1..Len(LetterColumns) : LetterColumns[i][1] = letter][2]

\* row[index] of a row of cells, zero-based; undefined beyond its end.
CellAt(row, index) == IF index + 1 <= Len(row) THEN row[index + 1] ELSE Undef

\* rowData[schema.columnIndex] for the schema of a column letter.
CellOf(rowData, letter) ==
  CellAt(rowData, COLUMN_SCHEMAS(SchemaOfLetter(letter)).columnIndex)

\* cellValue.trim() raises a TypeError when the cell is not a string.
TrimRaises(cellValue) == Truthy(cellValue) /\ cellValue.t # "string"

\* The report of validateRowJsonColumns for one column.
ValidateCell(cellValue, schemaKey) ==
  IF ~Truthy(cellValue) \/ Trim(cellValue.s) = <<>>
  THEN [status |-> "empty", error |-> "", errors |-> <<>>, warnings |-> <<>>,
        schemaKey |-> schemaKey]
  ELSE Let(parseAndValidateJson(cellValue), LAMBDA parseResult :
    IF ~parseResult.isValid
    THEN [status |-> "parse_error", error |-> parseResult.error, errors |-> <<>>,
          warnings |-> <<>>, schemaKey |-> schemaKey]
    ELSE Let(validateJsonStructure(parseResult.data, schemaKey),
             LAMBDA validationResult :
               [status |-> IF validationResult.isValid THEN "valid" ELSE "invalid",
                error |-> "", errors |-> validationResult.errors,
                warnings |-> validationResult.warnings, schemaKey |-> schemaKey]))

\* validateRowJsonColumns(rowData): the map from column letter to report;
\* raised when some JSON cell makes cellValue.trim() raise.
validateRowJsonColumns(rowData) ==
  IF \E letter \in ColumnLetters : TrimRaises(CellOf(rowData, letter))
  THEN [raised |-> TRUE, results |-> <<>>]
  ELSE [raised |-> FALSE,
        results |-> [letter \in ColumnLetters |->
                       ValidateCell(CellOf(rowData, letter), SchemaOfLetter(letter))]]


----------------------------------------------------------------------------
(* Aggregation/Cache Layer: loading one sheet                              *)

EntityTypes == {"agency", "oem", "vendor"}

\* The columns every entity type shares, C..AB, in mapping order.
SharedColumns ==
  << <<"parentCompany", 3>>, <<"obligations", 4>>, <<"smallBusiness", 5>>,
     <<"sumTier", 6>>, <<"sumType", 7>>, <<"contractVehicle", 8>>,
     <<"fundingDepartment", 9>>, <<"discount", 10>>, <<"topRefPiid", 11>>,
     <<"topPiid", 12>>, <<"activeContracts", 13>>, <<"discountOfferings", 14>>,
     <<"aiProduct", 15>>, <<"aiCategory", 16>>, <<"topBicProducts", 17>>,
     <<"reseller", 18>>, <<"bicReseller", 19>>, <<"bicOem", 20>>, <<"fasOem", 21>>,
     <<"fundingAgency", 22>>, <<"bicTopProductsPerAgency", 23>>, <<"oneGovTier", 24>>,
     <<"fasDataTable", 25>>, <<"fasTimestamp", 26>>, <<"bicDataTable", 27>>,
     <<"bicTimestamp", 28>> >>

\* this.columnMappings[entityType]: sheet name and 1-based column of each key.
columnMappings(entityType) ==
  [sheetName |-> CASE entityType = "agency" -> "Agency"
                   [] entityType = "oem" -> "OEM"
                   [] OTHER -> "Vendor",
   columns |-> << <<CASE entityType = "agency" -> "agencyCode"
                      [] entityType = "oem" -> "duns"
                      [] OTHER -> "uei", 1>>,
                  <<"name", 2>> >> \o SharedColumns]

NameColumn == 2

\* isJsonColumn(columnName)
isJsonColumn(columnName) ==
  columnName \in {"obligations", "smallBusiness", "sumTier", "sumType",
                  "contractVehicle", "fundingDepartment", "discount",
                  "topRefPiid", "topPiid", "activeContracts", "discountOfferings",
                  "aiProduct", "aiCategory", "topBicProducts", "reseller",
                  "bicReseller", "bicOem", "fasOem", "fundingAgency",
                  "bicTopProductsPerAgency", "oneGovTier"}

\* Object.values(x).reduce((sum, val) => sum + (parseFloat(val) || 0), 0)
RECURSIVE SumValues(_, _)
SumValues(pairs, sum) ==
  IF pairs = <<>> THEN sum
  ELSE SumValues(Tail(pairs), JsAdd(sum, JsOr(ParseFloat(Head(pairs).val), Num(0))))

\* x?.field giving undefined whatever x holds.
OptProp_AlwaysUndefined(x, key) == Undef

\* x?.field
OptProp(x, key) == IF Nullish(x) THEN Undef ELSE GetProp(x, key)

\* extractTotalObligations(obligationsJson)
extractTotalObligations(obligationsJson) ==
  IF ~Truthy(obligationsJson) THEN Num(0)
  ELSE IF Truthy(GetProp(obligationsJson, K("total_obligated")))
  THEN GetProp(obligationsJson, K("total_obligated"))
  ELSE IF Truthy(OptProp(GetProp(obligationsJson, K("summary")), K("total_obligations")))
  THEN GetProp(GetProp(obligationsJson, K("summary")), K("total_obligations"))
  ELSE IF Truthy(GetProp(obligationsJson, K("fiscal_year_obligations")))
  THEN SumValues(Entries(GetProp(obligationsJson, K("fiscal_year_obligations"))), Num(0))
  ELSE Num(0)

\* extractTier(entity)
extractTier(entity) ==
  IF Truthy(OptProp(GetProp(entity, K("oneGovTier")), K("mode_tier")))
  THEN GetProp(GetProp(entity, K("oneGovTier")), K("mode_tier"))
  ELSE IF Truthy(OptProp(GetProp(entity, K("sumTier")), K("tier")))
  THEN GetProp(GetProp(entity, K("sumTier")), K("tier"))
  ELSE JNull

\* checkAIProducts(entity)
checkAIProducts(entity) ==
  Bool(Truthy(GetProp(entity, K("aiProduct")))
       /\ KeyCount(GetProp(entity, K("aiProduct"))) > 0)

\* for (const [key, colIndex] of Object.entries(config.columns)): the
\* properties set on the entity, one for each column but the name column, in
\* mapping order (the keys are distinct and none is an index key).
ParseColumns(columns, row, props) ==
  Let(SelectSeq(columns, LAMBDA c : c[1] # "name"), LAMBDA others :
    props \o [j \in 1..Len(others) |->
                Entry(K(others[j][1]),
                      IF isJsonColumn(others[j][1])
                      THEN parseJSON(CellAt(row, others[j][2] - 1)).v
                      ELSE CellAt(row, others[j][2] - 1))])

\* The body of the row loop for row i, for a name that passed the blank test.
BuildEntity(entityType, i, row) ==
  Let(ParseColumns(columnMappings(entityType).columns, row,
        <<Entry(K("id"), Str(<<entityType, "_">> \o NatToText(i))),
          Entry(K("name"), Str(Trim(CellAt(row, NameColumn - 1).s))),
          Entry(K("type"), Str(K(entityType))),
          Entry(K("rowIndex"), Num(i))>>),
      LAMBDA parsed :
    Let(PutEntry(parsed, K("totalObligations"),
                 extractTotalObligations(GetProp(Obj(parsed), K("obligations")))),
        LAMBDA withTotal :
      Let(PutEntry(withTotal, K("tier"), extractTier(Obj(withTotal))),
          LAMBDA withTier :
        Obj(PutEntry(withTier, K("hasAIProducts"), checkAIProducts(Obj(withTier)))))))

\* if (!name || name.trim() === '') continue;  name.trim() raises a
\* TypeError when the name cell is a truthy value that is not a string.
NameRaises(name) == Truthy(name) /\ name.t # "string"
NameBlank(name) == ~Truthy(name) \/ Trim(name.s) = <<>>

\* The row loop of loadEntitySheet from row i on (values[0] is the header);
\* acc is the outcome so far, holding the list of entities.
RECURSIVE LoadRows(_, _, _, _)
LoadRows(entityType, values, i, acc) ==
  IF i + 1 > Len(values) THEN acc
  ELSE Let(CellAt(values[i + 1], NameColumn - 1), LAMBDA name :
         IF NameRaises(name) THEN [raised |-> TRUE, v |-> <<>>]
         ELSE LoadRows(entityType, values, i + 1,
                IF NameBlank(name) THEN acc
                ELSE [raised |-> FALSE,
                      v |-> Append(acc.v, BuildEntity(entityType, i, values[i + 1]))]))

\* What spreadsheet.getSheetByName(config.sheetName) returns: null, or a
\* sheet whose getDataRange().getValues() are the rows values.
NoSheet == [exists |-> FALSE, values |-> <<>>]
Sheet(values) == [exists |-> TRUE, values |-> values]

\* loadEntitySheet(spreadsheet, entityType) on the sheet found under the
\* sheet name; the outcome holds the list of entities.
loadEntitySheet(sheet, entityType) ==
  IF ~sheet.exists THEN [raised |-> FALSE, v |-> <<>>]
  ELSE LoadRows(entityType, sheet.values, 1, [raised |-> FALSE, v |-> <<>>])


----------------------------------------------------------------------------
(* Schema detection, and the examples of the columns                       *)

\* The checks of detectSchema in the order it makes them: the schema key
\* each of them returns, and whether the value passes it.
Fingerprints(jsonData) ==
  LET has(field) == Truthy(GetProp(jsonData, K(field)))
  IN << <<"usaiProfile", has("oem_name") /\ has("headquarters")>>,
       <<"obligations", has("total_obligated") /\ has("fiscal_year_obligations")>>,
       <<"oneGovTier", has("mode_tier") /\ has("tier_definitions")>>,
       <<"smallBusiness", has("business_size_summaries")>>,
       <<"sumTier", has("tier_summaries")>>,
       <<"sumType", has("sum_type_summaries")>>,
       <<"contractVehicle", has("top_contract_summaries")>>,
       <<"fundingDepartment", has("top_10_department_summaries")>>,
       <<"oneGovDiscountedProducts", has("discount_categories")>>,
       <<"topRefPiid", has("top_10_reference_piids")>>,
       <<"topPiid", has("top_10_piids")>>,
       <<"activeContracts", has("expiring_by_quarter")>>,
       <<"expiringDiscountedProducts", has("discount_contracts_expiring_by_quarter")>>,
       <<"aiProduct", has("ai_product_status")>>,
       <<"aiCategory", has("ai_category_status")>>,
       <<"topBicProducts", has("top_25_products")>>,
       <<"reseller", has("top_15_reseller_summaries")>>,
       <<"bicReseller", has("top_15_resellers") /\ GetProp(jsonData, K("top_15_resellers")).t = "array">>,
       <<"bicOem", has("top_15_manufacturers")>>,
       <<"fasOem", has("top_10_oem_summaries")>>,
       <<"fundingAgency", has("top_10_agency_summaries")>>,
       <<"bicTopProductsPerAgency", has("top_10_agencies")
         /\ Truthy(OptProp(GetProp(jsonData, K("summary")), K("grand_total")))>> >>

\* detectSchema returning the key of the last check the value passes.
detectSchema_LastMatch(jsonData) ==
  IF ~Truthy(jsonData) \/ TypeOf(jsonData) # "object" THEN JNull
  ELSE Let(Fingerprints(jsonData), LAMBDA checks :
         IF \A i \in 1..Len(checks) : ~checks[i][2] THEN JNull
         ELSE Str(K(checks[CHOOSE i \in 1..Len(checks) :
                             checks[i][2] /\ \A j \in (i + 1)..Len(checks) : ~checks[j][2]][1])))

\* detectSchema(jsonData): the key of the first check the value passes, null
\* for a value that is no object or passes none.
detectSchema(jsonData) ==
  IF ~Truthy(jsonData) \/ TypeOf(jsonData) # "object" THEN JNull
  ELSE Let(Fingerprints(jsonData), LAMBDA checks :
         IF \A i \in 1..Len(checks) : ~checks[i][2] THEN JNull
         ELSE Str(K(checks[CHOOSE i \in 1..Len(checks) :
                             checks[i][2] /\ \A j \in 1..(i - 1) : ~checks[j][2]][1])))

\* COMPLETE_EXAMPLES and COMPLETE_EXAMPLES_PART2: the example of every
\* column under its schema key, its amounts in whole dollars.
COMPLETE_EXAMPLES ==
  [obligations |->
    Obj(<<
      Entry(K("source_file"), Str(K("https://drive.google.com/file/d/14w7EL20t2GNjvYxGA7UeJAYbs0ebQRxZ/view?usp=drivesdk"))),
      Entry(K("fiscal_year_obligations"), Obj(<<
        Entry(<<"2", "0", "2", "2">>, Num(285946596)),
        Entry(<<"2", "0", "2", "3">>, Num(357674410)),
        Entry(<<"2", "0", "2", "4">>, Num(597501189)),
        Entry(<<"2", "0", "2", "5">>, Num(258010099))>>)),
      Entry(K("total_obligated"), Num(1499132295)),
      Entry(K("processed_date"), Str(K("2025-11-23T21:04:53.887Z")))>>),
   smallBusiness |->
    Obj(<<
      Entry(K("source_file"), Str(K("https://drive.google.com/file/d/14w7EL20t2GNjvYxGA7UeJAYbs0ebQRxZ/view?usp=drivesdk"))),
      Entry(K("summary"), Obj(<<
        Entry(K("total_all_obligations"), Num(1499132295)),
        Entry(K("unique_business_size_categories"), Num(2))>>)),
      Entry(K("business_size_summaries"), Obj(<<
        Entry(K("SMALL BUSINESS"), Obj(<<
          Entry(K("fiscal_years"), Obj(<<
            Entry(<<"2", "0", "2", "2">>, Num(229735906)),
            Entry(<<"2", "0", "2", "3">>, Num(251874424)),
            Entry(<<"2", "0", "2", "4">>, Num(337449510)),
            Entry(<<"2", "0", "2", "5">>, Num(183644312))>>)),
          Entry(K("total"), Num(1002704153)),
          Entry(K("percentage_of_total"), Str(K("66.89%")))>>)),
        Entry(K("OTHER THAN SMALL BUSINESS"), Obj(<<
          Entry(K("fiscal_years"), Obj(<<
            Entry(<<"2", "0", "2", "2">>, Num(56210689)),
            Entry(<<"2", "0", "2", "3">>, Num(105799985)),
            Entry(<<"2", "0", "2", "4">>, Num(260051678)),
            Entry(<<"2", "0", "2", "5">>, Num(74365787))>>)),
          Entry(K("total"), Num(496428141)),
          Entry(K("percentage_of_total"), Str(K("33.11%")))>>))>>)),
      Entry(K("processed_date"), Str(K("2025-11-23T21:05:14.740Z")))>>),
   sumTier |->
    Obj(<<
      Entry(K("source_file"), Str(K("https://drive.google.com/file/d/14w7EL20t2GNjvYxGA7UeJAYbs0ebQRxZ/view?usp=drivesdk"))),
      Entry(K("summary"), Obj(<<
        Entry(K("total_all_obligations"), Num(1499132295)),
        Entry(K("unique_tiers"), Num(4)),
        Entry(K("mapping_applied"), Str(K("SUM Tier mapping applied")))>>)),
      Entry(K("tier_summaries"), Obj(<<
        Entry(K("BIC"), Obj(<<
          Entry(K("fiscal_years"), Obj(<<
            Entry(<<"2", "0", "2", "2">>, Num(154698978)),
            Entry(<<"2", "0", "2", "3">>, Num(210671107)),
            Entry(<<"2", "0", "2", "4">>, Num(298139774)),
            Entry(<<"2", "0", "2", "5">>, Num(167773883))>>)),
          Entry(K("total"), Num(831283745)),
          Entry(K("percentage_of_total"), Str(K("55.45%")))>>)),
        Entry(K("TIER 2"), Obj(<<
          Entry(K("fiscal_years"), Obj(<<
            Entry(<<"2", "0", "2", "2">>, Num(56367656)),
            Entry(<<"2", "0", "2", "3">>, Num(116403058)),
            Entry(<<"2", "0", "2", "4">>, Num(278703961)),
            Entry(<<"2", "0", "2", "5">>, Num(75914803))>>)),
          Entry(K("total"), Num(527389480)),
          Entry(K("percentage_of_total"), Str(K("35.18%")))>>)),
        Entry(K("TIER 1"), Obj(<<
          Entry(K("fiscal_years"), Obj(<<
            Entry(<<"2", "0", "2", "2">>, Num(51293543)),
            Entry(<<"2", "0", "2", "3">>, Num(10648158)),
            Entry(<<"2", "0", "2", "4">>, Num(13145024)),
            Entry(<<"2", "0", "2", "5">>, Num(356626))>>)),
          Entry(K("total"), Num(75443352)),
          Entry(K("percentage_of_total"), Str(K("5.03%")))>>)),
        Entry(K("TIER 0"), Obj(<<
          Entry(K("fiscal_years"), Obj(<<
            Entry(<<"2", "0", "2", "2">>, Num(23586417)),
            Entry(<<"2", "0", "2", "3">>, Num(19952086)),
            Entry(<<"2", "0", "2", "4">>, Num(7512428)),
            Entry(<<"2", "0", "2", "5">>, Num(13964785))>>)),
          Entry(K("total"), Num(65015717)),
          Entry(K("percentage_of_total"), Str(K("4.34%")))>>))>>)),
      Entry(K("processed_date"), Str(K("2025-11-23T21:05:32.348Z")))>>),
   sumType |->
    Obj(<<
      Entry(K("source_file"), Str(K("https://drive.google.com/file/d/14w7EL20t2GNjvYxGA7UeJAYbs0ebQRxZ/view?usp=drivesdk"))),
      Entry(K("summary"), Obj(<<
        Entry(K("total_all_obligations"), Num(1499132295)),
        Entry(K("unique_sum_types"), Num(3))>>)),
      Entry(K("sum_type_summaries"), Obj(<<
        Entry(K("Governmentwide Management"), Obj(<<
          Entry(K("fiscal_years"), Obj(<<
            Entry(<<"2", "0", "2", "2">>, Num(211066635)),
            Entry(<<"2", "0", "2", "3">>, Num(327074166)),
            Entry(<<"2", "0", "2", "4">>, Num(576843736)),
            Entry(<<"2", "0", "2", "5">>, Num(243688687))>>)),
          Entry(K("total"), Num(1358673225)),
          Entry(K("percentage_of_total"), Str(K("90.63%")))>>)),
        Entry(K("Agency Managed & IDIQ"), Obj(<<
          Entry(K("fiscal_years"), Obj(<<
            Entry(<<"2", "0", "2", "2">>, Num(66751679)),
            Entry(<<"2", "0", "2", "3">>, Num(27466198)),
            Entry(<<"2", "0", "2", "4">>, Num(18348515)),
            Entry(<<"2", "0", "2", "5">>, Num(13527644))>>)),
          Entry(K("total"), Num(126094037)),
          Entry(K("percentage_of_total"), Str(K("8.41%")))>>)),
        Entry(K("Open Market"), Obj(<<
          Entry(K("fiscal_years"), Obj(<<
            Entry(<<"2", "0", "2", "2">>, Num(8128281)),
            Entry(<<"2", "0", "2", "3">>, Num(3134045)),
            Entry(<<"2", "0", "2", "4">>, Num(2308937)),
            Entry(<<"2", "0", "2", "5">>, Num(793767))>>)),
          Entry(K("total"), Num(14365032)),
          Entry(K("percentage_of_total"), Str(K("0.96%")))>>))>>)),
      Entry(K("processed_date"), Str(K("2025-11-23T21:05:49.076Z")))>>),
   contractVehicle |->
    Obj(<<
      Entry(K("source_file"), Str(K("https://drive.google.com/file/d/14w7EL20t2GNjvYxGA7UeJAYbs0ebQRxZ/view?usp=drivesdk"))),
      Entry(K("summary"), Obj(<<
        Entry(K("total_all_obligations"), Num(1499132295)),
        Entry(K("unique_contracts"), Num(43)),
        Entry(K("showing_top"), Num(20))>>)),
      Entry(K("top_contract_summaries"), Obj(<<
        Entry(K("NASA SEWP"), Obj(<<
          Entry(K("fiscal_years"), Obj(<<
            Entry(<<"2", "0", "2", "2">>, Num(113414265)),
            Entry(<<"2", "0", "2", "3">>, Num(162606247)),
            Entry(<<"2", "0", "2", "4">>, Num(185660769)),
            Entry(<<"2", "0", "2", "5">>, Num(131923574))>>)),
          Entry(K("total"), Num(593604858)),
          Entry(K("percentage_of_total"), Str(K("39.60%")))>>)),
        Entry(K("SCHEDULE 70 - INFORMATION TECHNOLOGY"), Obj(<<
          Entry(K("fiscal_years"), Obj(<<
            Entry(<<"2", "0", "2", "2">>, Num(25446392)),
            Entry(<<"2", "0", "2", "3">>, Num(74510133)),
            Entry(<<"2", "0", "2", "4">>, Num(108869312)),
            Entry(<<"2", "0", "2", "5">>, Num(13759412))>>)),
          Entry(K("total"), Num(222585250)),
          Entry(K("percentage_of_total"), Str(K("14.85%")))>>)),
        Entry(K("JOINT WARFIGHTING CLOUD CAPABILITY"), Obj(<<
          Entry(K("fiscal_years"), Obj(<<
            Entry(<<"2", "0", "2", "3">>, Num(9303476)),
            Entry(<<"2", "0", "2", "4">>, Num(117319433)),
            Entry(<<"2", "0", "2", "5">>, Num(43756697))>>)),
          Entry(K("total"), Num(170379608)),
          Entry(K("percentage_of_total"), Str(K("11.37%")))>>)),
        Entry(K("Sched 70 HW SW"), Obj(<<
          Entry(K("fiscal_years"), Obj(<<
            Entry(<<"2", "0", "2", "2">>, Num(11770379)),
            Entry(<<"2", "0", "2", "3">>, Num(15926642)),
            Entry(<<"2", "0", "2", "4">>, Num(80442773)),
            Entry(<<"2", "0", "2", "5">>, Num(33243390))>>)),
          Entry(K("total"), Num(141383185)),
          Entry(K("percentage_of_total"), Str(K("9.43%")))>>)),
        Entry(K("FIRSTSOURCE II"), Obj(<<
          Entry(K("fiscal_years"), Obj(<<
            Entry(<<"2", "0", "2", "2">>, Num(50283132)),
            Entry(<<"2", "0", "2", "3">>, Num(10622460)),
            Entry(<<"2", "0", "2", "4">>, Num(7950542)),
            Entry(<<"2", "0", "2", "5">>, Num(350000))>>)),
          Entry(K("total"), Num(69206135)),
          Entry(K("percentage_of_total"), Str(K("4.62%")))>>))>>)),
      Entry(K("processed_date"), Str(K("2025-11-23T21:06:05.782Z")))>>),
   fundingDepartment |->
    Obj(<<
      Entry(K("source_file"), Str(K("https://drive.google.com/file/d/14w7EL20t2GNjvYxGA7UeJAYbs0ebQRxZ/view?usp=drivesdk"))),
      Entry(K("summary"), Obj(<<
        Entry(K("total_all_departments"), Num(1499132295)),
        Entry(K("total_top_10_departments"), Num(1310038145)),
        Entry(K("top_10_percentage_of_total"), Str(K("87.39%"))),
        Entry(K("total_unique_departments"), Num(38)),
        Entry(K("departments_shown"), Num(10))>>)),
      Entry(K("top_10_department_summaries"), Obj(<<
        Entry(K("DEPT OF DEFENSE"), Obj(<<
          Entry(K("fiscal_years"), Obj(<<
            Entry(<<"2", "0", "2", "2">>, Num(50184776)),
            Entry(<<"2", "0", "2", "3">>, Num(137105174)),
            Entry(<<"2", "0", "2", "4">>, Num(257972490)),
            Entry(<<"2", "0", "2", "5">>, Num(67498750))>>)),
          Entry(K("total"), Num(512761192)),
          Entry(K("percentage_of_total"), Str(K("34.20%")))>>)),
        Entry(K("HOMELAND SECURITY, DEPARTMENT OF"), Obj(<<
          Entry(K("fiscal_years"), Obj(<<
            Entry(<<"2", "0", "2", "2">>, Num(52904010)),
            Entry(<<"2", "0", "2", "3">>, Num(32686776)),
            Entry(<<"2", "0", "2", "4">>, Num(120240512)),
            Entry(<<"2", "0", "2", "5">>, Num(22430278))>>)),
          Entry(K("total"), Num(228261578)),
          Entry(K("percentage_of_total"), Str(K("15.23%")))>>)),
        Entry(K("VETERANS AFFAIRS, DEPARTMENT OF"), Obj(<<
          Entry(K("fiscal_years"), Obj(<<
            Entry(<<"2", "0", "2", "2">>, Num(25108921)),
            Entry(<<"2", "0", "2", "4">>, Num(22010000)),
            Entry(<<"2", "0", "2", "5">>, Num(73028118))>>)),
          Entry(K("total"), Num(120147040)),
          Entry(K("percentage_of_total"), Str(K("8.01%")))>>)),
        Entry(K("TREASURY, DEPARTMENT OF THE"), Obj(<<
          Entry(K("fiscal_years"), Obj(<<
            Entry(<<"2", "0", "2", "2">>, Num(42859732)),
            Entry(<<"2", "0", "2", "3">>, Num(32741941)),
            Entry(<<"2", "0", "2", "4">>, Num(12071824)),
            Entry(<<"2", "0", "2", "5">>, Num(2425545))>>)),
          Entry(K("total"), Num(90099044)),
          Entry(K("percentage_of_total"), Str(K("6.01%")))>>)),
        Entry(K("HEALTH AND HUMAN SERVICES, DEPARTMENT OF"), Obj(<<
          Entry(K("fiscal_years"), Obj(<<
            Entry(<<"2", "0", "2", "2">>, Num(19393461)),
            Entry(<<"2", "0", "2", "3">>, Num(20044116)),
            Entry(<<"2", "0", "2", "4">>, Num(26413509)),
            Entry(<<"2", "0", "2", "5">>, Num(10827478))>>)),
          Entry(K("total"), Num(76678566)),
          Entry(K("percentage_of_total"), Str(K("5.12%")))>>))>>)),
      Entry(K("processed_date"), Str(K("2025-11-20T01:17:53.021Z")))>>),
   oneGovDiscountedProducts |->
    Obj(<<
      Entry(K("source_file"), Str(K("https://drive.google.com/file/d/14w7EL20t2GNjvYxGA7UeJAYbs0ebQRxZ/view?usp=drivesdk"))),
      Entry(K("discount_status"), Str(K("Active Discounts"))),
      Entry(K("summary"), Obj(<<
        Entry(K("total_obligations_with_discounts"), Num(277516092)),
        Entry(K("unique_discount_categories"), Num(7))>>)),
      Entry(K("discount_categories"), Obj(<<
        Entry(K("AWS Migration Credits"), Obj(<<
          Entry(K("fiscal_years"), Obj(<<
            Entry(<<"2", "0", "2", "2">>, Num(8269696)),
            Entry(<<"2", "0", "2", "3">>, Num(28091172)),
            Entry(<<"2", "0", "2", "4">>, Num(70100791)),
            Entry(<<"2", "0", "2", "5">>, Num(67452857))>>)),
          Entry(K("total"), Num(173914518)),
          Entry(K("percentage_of_total"), Str(K("62.67%")))>>)),
        Entry(K("AWS Modernization - Application"), Obj(<<
          Entry(K("fiscal_years"), Obj(<<
            Entry(<<"2", "0", "2", "2">>, Num(896318)),
            Entry(<<"2", "0", "2", "3">>, Num(1880500)),
            Entry(<<"2", "0", "2", "4">>, Num(43524030)),
            Entry(<<"2", "0", "2", "5">>, Num(15249388))>>)),
          Entry(K("total"), Num(61550237)),
          Entry(K("percentage_of_total"), Str(K("22.18%")))>>)),
        Entry(K("AWS Modernization - Infrastructure"), Obj(<<
          Entry(K("fiscal_years"), Obj(<<
            Entry(<<"2", "0", "2", "2">>, Num(2690451)),
            Entry(<<"2", "0", "2", "3">>, Num(450113)),
            Entry(<<"2", "0", "2", "4">>, Num(22574436)),
            Entry(<<"2", "0", "2", "5">>, Num(1104135))>>)),
          Entry(K("total"), Num(26819137)),
          Entry(K("percentage_of_total"), Str(K("9.66%")))>>)),
        Entry(K("AWS Modernization - POC"), Obj(<<
          Entry(K("fiscal_years"), Obj(<<
            Entry(<<"2", "0", "2", "2">>, Num(595913)),
            Entry(<<"2", "0", "2", "3">>, Num(4047852)),
            Entry(<<"2", "0", "2", "4">>, Num(2731307)),
            Entry(<<"2", "0", "2", "5">>, Num(318535))>>)),
          Entry(K("total"), Num(7693608)),
          Entry(K("percentage_of_total"), Str(K("2.77%")))>>)),
        Entry(K("Azure"), Obj(<<
          Entry(K("fiscal_years"), Obj(<<Entry(<<"2", "0", "2", "5">>, Num(5936808))>>)),
          Entry(K("total"), Num(5936808)),
          Entry(K("percentage_of_total"), Str(K("2.14%")))>>)),
        Entry(K("AWS Training & Certification"), Obj(<<
          Entry(K("fiscal_years"), Obj(<<
            Entry(<<"2", "0", "2", "2">>, Num(24920)),
            Entry(<<"2", "0", "2", "3">>, Num(24768)),
            Entry(<<"2", "0", "2", "4">>, Num(1556909)),
            Entry(<<"2", "0", "2", "5">>, Num(0 - 4816))>>)),
          Entry(K("total"), Num(1601782)),
          Entry(K("percentage_of_total"), Str(K("0.58%")))>>)),
        Entry(K("ServiceNow ITSM Pro Bundle - GCC"), Obj(<<
          Entry(K("fiscal_years"), Obj(<<Entry(<<"2", "0", "2", "4">>, Num(0))>>)),
          Entry(K("total"), Num(0)),
          Entry(K("percentage_of_total"), Str(K("0.00%")))>>))>>)),
      Entry(K("processed_date"), Str(K("2025-11-20T01:18:12.620Z")))>>),
   topRefPiid |->
    Obj(<<
      Entry(K("source_file"), Str(K("https://drive.google.com/file/d/14w7EL20t2GNjvYxGA7UeJAYbs0ebQRxZ/view?usp=drivesdk"))),
      Entry(K("total_obligations"), Num(1465557384)),
      Entry(K("unique_ref_piids"), Num(164)),
      Entry(K("fiscal_years_covered"), ArrayOf(<<Str(K("2022")), Str(K("2023")), Str(K("2024")), Str(K("2025"))>>)),
      Entry(K("yearly_totals"), Obj(<<
        Entry(<<"2", "0", "2", "2">>, Num(272072250)),
        Entry(<<"2", "0", "2", "3">>, Num(352027842)),
        Entry(<<"2", "0", "2", "4">>, Num(584585314)),
        Entry(<<"2", "0", "2", "5">>, Num(256871976))>>)),
      Entry(K("top_10_reference_piids"), ArrayOf(<<
        Obj(<<
          Entry(K("reference_piid"), Str(K("NNG15SD22B"))),
          Entry(K("dollars_obligated"), Num(207813522)),
          Entry(K("percentage_of_total"), Str(K("14.18%"))),
          Entry(K("agencies_using"), Num(14)),
          Entry(K("fiscal_year_breakdown"), Obj(<<
            Entry(<<"2", "0", "2", "2">>, Obj(<<
              Entry(K("obligations"), Num(29238989)),
              Entry(K("percentage_of_year"), Str(K("10.75%")))>>)),
            Entry(<<"2", "0", "2", "3">>, Obj(<<
              Entry(K("obligations"), Num(17367874)),
              Entry(K("percentage_of_year"), Str(K("4.93%")))>>)),
            Entry(<<"2", "0", "2", "4">>, Obj(<<
              Entry(K("obligations"), Num(67783142)),
              Entry(K("percentage_of_year"), Str(K("11.60%")))>>)),
            Entry(<<"2", "0", "2", "5">>, Obj(<<
              Entry(K("obligations"), Num(93423515)),
              Entry(K("percentage_of_year"), Str(K("36.37%")))>>))>>))>>),
        Obj(<<
          Entry(K("reference_piid"), Str(K("NNG15SC74B"))),
          Entry(K("dollars_obligated"), Num(188707880)),
          Entry(K("percentage_of_total"), Str(K("12.88%"))),
          Entry(K("agencies_using"), Num(11)),
          Entry(K("fiscal_year_breakdown"), Obj(<<
            Entry(<<"2", "0", "2", "2">>, Obj(<<
              Entry(K("obligations"), Num(58476429)),
              Entry(K("percentage_of_year"), Str(K("21.49%")))>>)),
            Entry(<<"2", "0", "2", "3">>, Obj(<<
              Entry(K("obligations"), Num(77551949)),
              Entry(K("percentage_of_year"), Str(K("22.03%")))>>)),
            Entry(<<"2", "0", "2", "4">>, Obj(<<
              Entry(K("obligations"), Num(50614574)),
              Entry(K("percentage_of_year"), Str(K("8.66%")))>>)),
            Entry(<<"2", "0", "2", "5">>, Obj(<<
              Entry(K("obligations"), Num(2064927)),
              Entry(K("percentage_of_year"), Str(K("0.80%")))>>))>>))>>),
        Obj(<<
          Entry(K("reference_piid"), Str(K("HC102820D0014"))),
          Entry(K("dollars_obligated"), Num(170379608)),
          Entry(K("percentage_of_total"), Str(K("11.63%"))),
          Entry(K("agencies_using"), Num(3)),
          Entry(K("fiscal_year_breakdown"), Obj(<<
            Entry(<<"2", "0", "2", "3">>, Obj(<<
              Entry(K("obligations"), Num(9303476)),
              Entry(K("percentage_of_year"), Str(K("2.64%")))>>)),
            Entry(<<"2", "0", "2", "4">>, Obj(<<
              Entry(K("obligations"), Num(117319433)),
              Entry(K("percentage_of_year"), Str(K("20.07%")))>>)),
            Entry(<<"2", "0", "2", "5">>, Obj(<<
              Entry(K("obligations"), Num(43756697)),
              Entry(K("percentage_of_year"), Str(K("17.03%")))>>))>>))>>)>>)),
      Entry(K("processed_date"), Str(K("2025-11-20T01:18:32.825Z")))>>),
   topPiid |->
    Obj(<<
      Entry(K("source_file"), Str(K("https://drive.google.com/file/d/14w7EL20t2GNjvYxGA7UeJAYbs0ebQRxZ/view?usp=drivesdk"))),
      Entry(K("total_obligations"), Num(1499132295)),
      Entry(K("unique_piids"), Num(611)),
      Entry(K("fiscal_years_covered"), ArrayOf(<<Str(K("2022")), Str(K("2023")), Str(K("2024")), Str(K("2025"))>>)),
      Entry(K("yearly_totals"), Obj(<<
        Entry(<<"2", "0", "2", "2">>, Num(285946596)),
        Entry(<<"2", "0", "2", "3">>, Num(357674410)),
        Entry(<<"2", "0", "2", "4">>, Num(597501189)),
        Entry(<<"2", "0", "2", "5">>, Num(258010099))>>)),
      Entry(K("top_10_piids"), ArrayOf(<<
        Obj(<<
          Entry(K("piid"), Str(K("36C10B22F0207"))),
          Entry(K("dollars_obligated"), Num(98749699)),
          Entry(K("percentage_of_total"), Str(K("6.59%"))),
          Entry(K("agencies_using"), Num(1)),
          Entry(K("fiscal_year_breakdown"), Obj(<<
            Entry(<<"2", "0", "2", "2">>, Obj(<<
              Entry(K("obligations"), Num(3711581)),
              Entry(K("percentage_of_year"), Str(K("1.30%")))>>)),
            Entry(<<"2", "0", "2", "4">>, Obj(<<
              Entry(K("obligations"), Num(22010000)),
              Entry(K("percentage_of_year"), Str(K("3.68%")))>>)),
            Entry(<<"2", "0", "2", "5">>, Obj(<<
              Entry(K("obligations"), Num(73028118)),
              Entry(K("percentage_of_year"), Str(K("28.30%")))>>))>>))>>),
        Obj(<<
          Entry(K("piid"), Str(K("70B04C24F00000413"))),
          Entry(K("dollars_obligated"), Num(64927504)),
          Entry(K("percentage_of_total"), Str(K("4.33%"))),
          Entry(K("agencies_using"), Num(1)),
          Entry(K("fiscal_year_breakdown"), Obj(<<
            Entry(<<"2", "0", "2", "4">>, Obj(<<
              Entry(K("obligations"), Num(43293621)),
              Entry(K("percentage_of_year"), Str(K("7.25%")))>>)),
            Entry(<<"2", "0", "2", "5">>, Obj(<<
              Entry(K("obligations"), Num(21633882)),
              Entry(K("percentage_of_year"), Str(K("8.38%")))>>))>>))>>),
        Obj(<<
          Entry(K("piid"), Str(K("70B04C23F00000158"))),
          Entry(K("dollars_obligated"), Num(51093741)),
          Entry(K("percentage_of_total"), Str(K("3.41%"))),
          Entry(K("agencies_using"), Num(1)),
          Entry(K("fiscal_year_breakdown"), Obj(<<
            Entry(<<"2", "0", "2", "3">>, Obj(<<
              Entry(K("obligations"), Num(10106889)),
              Entry(K("percentage_of_year"), Str(K("2.83%")))>>)),
            Entry(<<"2", "0", "2", "4">>, Obj(<<
              Entry(K("obligations"), Num(40986852)),
              Entry(K("percentage_of_year"), Str(K("6.86%")))>>))>>))>>)>>)),
      Entry(K("processed_date"), Str(K("2025-11-20T01:18:53.637Z")))>>),
   activeContracts |->
    Obj(<<
      Entry(K("source_file"), Str(K("https://drive.google.com/file/d/14w7EL20t2GNjvYxGA7UeJAYbs0ebQRxZ/view?usp=drivesdk"))),
      Entry(K("summary"), Obj(<<
        Entry(K("total_obligations"), Num(1499132295)),
        Entry(K("total_unique_contracts"), Num(227)),
        Entry(K("expired_contracts"), Num(1697)),
        Entry(K("expired_obligations"), Num(1333947085)),
        Entry(K("expired_percentage"), Str(K("88.98%")))>>)),
      Entry(K("expiring_by_quarter"), Obj(<<
        Entry(K("Q1 FY26"), Obj(<<
          Entry(K("unique_contracts_expiring"), Num(11)),
          Entry(K("total_obligations_expiring"), Num(38595502)),
          Entry(K("percentage_of_total"), Str(K("2.57%")))>>)),
        Entry(K("Q2 FY26"), Obj(<<
          Entry(K("unique_contracts_expiring"), Num(12)),
          Entry(K("total_obligations_expiring"), Num(88512630)),
          Entry(K("percentage_of_total"), Str(K("5.90%")))>>)),
        Entry(K("Q3 FY26"), Obj(<<
          Entry(K("unique_contracts_expiring"), Num(13)),
          Entry(K("total_obligations_expiring"), Num(15649749)),
          Entry(K("percentage_of_total"), Str(K("1.04%")))>>)),
        Entry(K("Q4 FY26"), Obj(<<
          Entry(K("unique_contracts_expiring"), Num(4)),
          Entry(K("total_obligations_expiring"), Num(344757)),
          Entry(K("percentage_of_total"), Str(K("0.02%")))>>)),
        Entry(K("Q1 FY27"), Obj(<<
          Entry(K("unique_contracts_expiring"), Num(1)),
          Entry(K("total_obligations_expiring"), Num(632438)),
          Entry(K("percentage_of_total"), Str(K("0.04%")))>>)),
        Entry(K("Q2 FY27"), Obj(<<
          Entry(K("unique_contracts_expiring"), Num(0)),
          Entry(K("total_obligations_expiring"), Num(0)),
          Entry(K("percentage_of_total"), Str(K("0.00%")))>>)),
        Entry(K("Q3 FY27"), Obj(<<
          Entry(K("unique_contracts_expiring"), Num(0)),
          Entry(K("total_obligations_expiring"), Num(0)),
          Entry(K("percentage_of_total"), Str(K("0.00%")))>>)),
        Entry(K("Q4 FY27"), Obj(<<
          Entry(K("unique_contracts_expiring"), Num(2)),
          Entry(K("total_obligations_expiring"), Num(4934475)),
          Entry(K("percentage_of_total"), Str(K("0.33%")))>>))>>)),
      Entry(K("processed_date"), Str(K("2025-11-20T01:19:15.666Z")))>>),
   expiringDiscountedProducts |->
    Obj(<<
      Entry(K("source_file"), Str(K("https://drive.google.com/file/d/14w7EL20t2GNjvYxGA7UeJAYbs0ebQRxZ/view?usp=drivesdk"))),
      Entry(K("sheet_type"), Str(K("OEM"))),
      Entry(K("grouped_by"), Str(K("Agency"))),
      Entry(K("discount_report_status"), Str(K("Active Discounts"))),
      Entry(K("summary"), Obj(<<
        Entry(K("grand_total_all_obligations"), Num(165185210)),
        Entry(K("total_with_discounts"), Num(20144550)),
        Entry(K("total_without_discounts"), Num(145040659)),
        Entry(K("discount_percentage"), Str(K("12.20%"))),
        Entry(K("unique_entities_with_discounts"), Num(16)),
        Entry(K("showing_top"), Num(16)),
        Entry(K("active_contracts_only"), Bool(TRUE))>>)),
      Entry(K("discount_contracts_expiring_by_quarter"), Obj(<<
        Entry(K("Q1 FY26"), Obj(<<
          Entry(K("unique_contracts_expiring"), Num(3)),
          Entry(K("total_dollars_expiring"), Num(9657473)),
          Entry(K("percentage_of_total_discounts"), Str(K("47.94%"))),
          Entry(K("top_entities_expiring"), ArrayOf(<<
            Obj(<<
              Entry(K("entity_name"), Str(K("DEPT OF THE ARMY"))),
              Entry(K("dollars_expiring"), Num(6358285)),
              Entry(K("contracts_expiring"), Num(1))>>),
            Obj(<<
              Entry(K("entity_name"), Str(K("DEPT OF THE NAVY"))),
              Entry(K("dollars_expiring"), Num(2520640)),
              Entry(K("contracts_expiring"), Num(1))>>),
            Obj(<<
              Entry(K("entity_name"), Str(K("OFFICES, BOARDS AND DIVISIONS"))),
              Entry(K("dollars_expiring"), Num(531000)),
              Entry(K("contracts_expiring"), Num(1))>>),
            Obj(<<
              Entry(K("entity_name"), Str(K("ENERGY, DEPARTMENT OF"))),
              Entry(K("dollars_expiring"), Num(247547)),
              Entry(K("contracts_expiring"), Num(1))>>)>>))>>)),
        Entry(K("Q2 FY26"), Obj(<<
          Entry(K("unique_contracts_expiring"), Num(8)),
          Entry(K("total_dollars_expiring"), Num(9557920)),
          Entry(K("percentage_of_total_discounts"), Str(K("47.45%"))),
          Entry(K("top_entities_expiring"), ArrayOf(<<
            Obj(<<
              Entry(K("entity_name"), Str(K("GAO, EXCEPT COMPTROLLER GENERAL"))),
              Entry(K("dollars_expiring"), Num(4454859)),
              Entry(K("contracts_expiring"), Num(1))>>),
            Obj(<<
              Entry(K("entity_name"), Str(K("IMMIGRATION AND CUSTOMS ENFORCEMENT"))),
              Entry(K("dollars_expiring"), Num(2000000)),
              Entry(K("contracts_expiring"), Num(1))>>)>>))>>)),
        Entry(K("Q3 FY26"), Obj(<<
          Entry(K("unique_contracts_expiring"), Num(2)),
          Entry(K("total_dollars_expiring"), Num(929156)),
          Entry(K("percentage_of_total_discounts"), Str(K("4.61%"))),
          Entry(K("top_entities_expiring"), Arr(<<>>))>>)),
        Entry(K("Q4 FY26"), Obj(<<
          Entry(K("unique_contracts_expiring"), Num(0)),
          Entry(K("total_dollars_expiring"), Num(0)),
          Entry(K("percentage_of_total_discounts"), Str(K("0.00%"))),
          Entry(K("top_entities_expiring"), Arr(<<>>))>>))>>)),
      Entry(K("processed_date"), Str(K("2025-11-20T01:19:37.942Z")))>>),
   aiProduct |->
    Obj(<<
      Entry(K("source_file"), Str(K("https://drive.google.com/file/d/14w7EL20t2GNjvYxGA7UeJAYbs0ebQRxZ/view?usp=drivesdk"))),
      Entry(K("ai_product_status"), Str(K("Active AI Products"))),
      Entry(K("summary"), Obj(<<
        Entry(K("grand_total_obligations"), Num(1499132295)),
        Entry(K("unique_products"), Num(824)),
        Entry(K("fiscal_years_covered"), ArrayOf(<<Str(K("2022")), Str(K("2023")), Str(K("2024")), Str(K("2025"))>>))>>)),
      Entry(K("fiscal_year_summaries"), Obj(<<
        Entry(<<"2", "0", "2", "2">>, Obj(<<
          Entry(K("total_obligations"), Num(285946596)),
          Entry(K("percentage_of_grand_total"), Str(K("19.07%"))),
          Entry(K("unique_products"), Num(234)),
          Entry(K("top_10_products"), ArrayOf(<<
            Obj(<<
              Entry(K("product"), Str(K("Amazon Web Services cloud services"))),
              Entry(K("obligations"), Num(80164297)),
              Entry(K("percentage_of_year"), Str(K("28.03%"))),
              Entry(K("percentage_of_total"), Str(K("5.35%")))>>),
            Obj(<<
              Entry(K("product"), Str(K("Amazon Web Services (AWS)"))),
              Entry(K("obligations"), Num(37163676)),
              Entry(K("percentage_of_year"), Str(K("13.00%"))),
              Entry(K("percentage_of_total"), Str(K("2.48%")))>>),
            Obj(<<
              Entry(K("product"), Str(K("Amazon Web Services (AWS) cloud services"))),
              Entry(K("obligations"), Num(25685365)),
              Entry(K("percentage_of_year"), Str(K("8.98%"))),
              Entry(K("percentage_of_total"), Str(K("1.71%")))>>),
            Obj(<<
              Entry(K("product"), Str(K("Amazon Web Services (AWS) cloud credits"))),
              Entry(K("obligations"), Num(18366285)),
              Entry(K("percentage_of_year"), Str(K("6.42%"))),
              Entry(K("percentage_of_total"), Str(K("1.23%")))>>),
            Obj(<<
              Entry(K("product"), Str(K("Amazon Web Services Infrastructure Credit Units"))),
              Entry(K("obligations"), Num(12082617)),
              Entry(K("percentage_of_year"), Str(K("4.23%"))),
              Entry(K("percentage_of_total"), Str(K("0.81%")))>>)>>))>>)),
        Entry(<<"2", "0", "2", "3">>, Obj(<<
          Entry(K("total_obligations"), Num(357674410)),
          Entry(K("percentage_of_grand_total"), Str(K("23.86%"))),
          Entry(K("unique_products"), Num(312)),
          Entry(K("top_10_products"), ArrayOf(<<
            Obj(<<
              Entry(K("product"), Str(K("Amazon Web Services cloud services"))),
              Entry(K("obligations"), Num(95234567)),
              Entry(K("percentage_of_year"), Str(K("26.63%"))),
              Entry(K("percentage_of_total"), Str(K("6.35%")))>>)>>))>>)),
        Entry(<<"2", "0", "2", "4">>, Obj(<<
          Entry(K("total_obligations"), Num(597501189)),
          Entry(K("percentage_of_grand_total"), Str(K("39.86%"))),
          Entry(K("unique_products"), Num(456)),
          Entry(K("top_10_products"), ArrayOf(<<
            Obj(<<
              Entry(K("product"), Str(K("Amazon Web Services cloud services"))),
              Entry(K("obligations"), Num(180000000)),
              Entry(K("percentage_of_year"), Str(K("30.13%"))),
              Entry(K("percentage_of_total"), Str(K("12.01%")))>>)>>))>>)),
        Entry(<<"2", "0", "2", "5">>, Obj(<<
          Entry(K("total_obligations"), Num(258010099)),
          Entry(K("percentage_of_grand_total"), Str(K("17.21%"))),
          Entry(K("unique_products"), Num(289)),
          Entry(K("top_10_products"), ArrayOf(<<
            Obj(<<
              Entry(K("product"), Str(K("Amazon Web Services cloud services"))),
              Entry(K("obligations"), Num(75000000)),
              Entry(K("percentage_of_year"), Str(K("29.07%"))),
              Entry(K("percentage_of_total"), Str(K("5.00%")))>>)>>))>>))>>)),
      Entry(K("processed_date"), Str(K("2025-11-20T01:19:59.592Z")))>>),
   aiCategory |->
    Obj(<<
      Entry(K("source_file"), Str(K("https://drive.google.com/file/d/14w7EL20t2GNjvYxGA7UeJAYbs0ebQRxZ/view?usp=drivesdk"))),
      Entry(K("ai_category_status"), Str(K("Active AI Categories"))),
      Entry(K("summary"), Obj(<<
        Entry(K("grand_total_obligations"), Num(1499132295)),
        Entry(K("unique_categories"), Num(14)),
        Entry(K("fiscal_years_covered"), ArrayOf(<<Str(K("2022")), Str(K("2023")), Str(K("2024")), Str(K("2025"))>>))>>)),
      Entry(K("fiscal_year_summaries"), Obj(<<
        Entry(<<"2", "0", "2", "2">>, Obj(<<
          Entry(K("total_obligations"), Num(285946596)),
          Entry(K("percentage_of_grand_total"), Str(K("19.07%"))),
          Entry(K("unique_categories"), Num(12)),
          Entry(K("top_10_categories"), ArrayOf(<<
            Obj(<<
              Entry(K("category"), Str(K("Cloud & Infrastructure Services"))),
              Entry(K("obligations"), Num(278182775)),
              Entry(K("percentage_of_year"), Str(K("97.28%"))),
              Entry(K("percentage_of_total"), Str(K("18.56%")))>>),
            Obj(<<
              Entry(K("category"), Str(K("Professional Services - Consulting"))),
              Entry(K("obligations"), Num(3444942)),
              Entry(K("percentage_of_year"), Str(K("1.20%"))),
              Entry(K("percentage_of_total"), Str(K("0.23%")))>>),
            Obj(<<
              Entry(K("category"), Str(K("Professional Services - Implementation"))),
              Entry(K("obligations"), Num(3274119)),
              Entry(K("percentage_of_year"), Str(K("1.15%"))),
              Entry(K("percentage_of_total"), Str(K("0.22%")))>>),
            Obj(<<
              Entry(K("category"), Str(K("Insufficient Information"))),
              Entry(K("obligations"), Num(481170)),
              Entry(K("percentage_of_year"), Str(K("0.17%"))),
              Entry(K("percentage_of_total"), Str(K("0.03%")))>>),
            Obj(<<
              Entry(K("category"), Str(K("Software Licenses & Subscriptions"))),
              Entry(K("obligations"), Num(147010)),
              Entry(K("percentage_of_year"), Str(K("0.05%"))),
              Entry(K("percentage_of_total"), Str(K("0.01%")))>>)>>))>>)),
        Entry(<<"2", "0", "2", "3">>, Obj(<<
          Entry(K("total_obligations"), Num(357674410)),
          Entry(K("percentage_of_grand_total"), Str(K("23.86%"))),
          Entry(K("unique_categories"), Num(13)),
          Entry(K("top_10_categories"), ArrayOf(<<
            Obj(<<
              Entry(K("category"), Str(K("Cloud & Infrastructure Services"))),
              Entry(K("obligations"), Num(345000000)),
              Entry(K("percentage_of_year"), Str(K("96.46%"))),
              Entry(K("percentage_of_total"), Str(K("23.01%")))>>)>>))>>)),
        Entry(<<"2", "0", "2", "4">>, Obj(<<
          Entry(K("total_obligations"), Num(597501189)),
          Entry(K("percentage_of_grand_total"), Str(K("39.86%"))),
          Entry(K("unique_categories"), Num(14)),
          Entry(K("top_10_categories"), Arr(<<>>))>>)),
        Entry(<<"2", "0", "2", "5">>, Obj(<<
          Entry(K("total_obligations"), Num(258010099)),
          Entry(K("percentage_of_grand_total"), Str(K("17.21%"))),
          Entry(K("unique_categories"), Num(11)),
          Entry(K("top_10_categories"), Arr(<<>>))>>))>>)),
      Entry(K("processed_date"), Str(K("2025-11-20T01:20:19.765Z")))>>),
   topBicProducts |->
    Obj(<<
      Entry(K("source_file"), Str(K("https://drive.google.com/file/d/1cNKgLWx4mA8pAjb_WCsH_UCBF61De5N-/view?usp=drivesdk"))),
      Entry(K("summary"), Obj(<<
        Entry(K("total_all_products"), Num(378028244)),
        Entry(K("unique_product_count"), Num(1201)),
        Entry(K("total_top_25_products"), Num(357058845)),
        Entry(K("top_25_percentage_of_total"), Str(K("94.45%"))),
        Entry(K("fiscal_years_covered"), ArrayOf(<<Str(K("2022")), Str(K("2023")), Str(K("2024")), Str(K("2025"))>>))>>)),
      Entry(K("yearly_totals"), Obj(<<
        Entry(<<"2", "0", "2", "2">>, Num(94183188)),
        Entry(<<"2", "0", "2", "3">>, Num(116816051)),
        Entry(<<"2", "0", "2", "4">>, Num(125220748)),
        Entry(<<"2", "0", "2", "5">>, Num(41808255))>>)),
      Entry(K("top_25_products"), ArrayOf(<<
        Obj(<<
          Entry(K("product_name"), Str(K("AMAZON WEB SERVICES  AWS  1 CREDIT  CAN BE USED FOR ALL AWS AND STRATEGIC COMMU"))),
          Entry(K("total_price"), Num(81518620)),
          Entry(K("percentage_of_total"), Str(K("21.56%"))),
          Entry(K("fiscal_year_breakdown"), Obj(<<
            Entry(<<"2", "0", "2", "2">>, Obj(<<
              Entry(K("total_price"), Num(8919357)),
              Entry(K("percentage_of_year"), Str(K("9.47%")))>>)),
            Entry(<<"2", "0", "2", "3">>, Obj(<<
              Entry(K("total_price"), Num(9779980)),
              Entry(K("percentage_of_year"), Str(K("8.37%")))>>)),
            Entry(<<"2", "0", "2", "4">>, Obj(<<
              Entry(K("total_price"), Num(37483964)),
              Entry(K("percentage_of_year"), Str(K("29.93%")))>>)),
            Entry(<<"2", "0", "2", "5">>, Obj(<<
              Entry(K("total_price"), Num(25335317)),
              Entry(K("percentage_of_year"), Str(K("60.60%")))>>))>>))>>),
        Obj(<<
          Entry(K("product_name"), Str(K("The scope of this CLIN includes all curr"))),
          Entry(K("total_price"), Num(63712182)),
          Entry(K("percentage_of_total"), Str(K("16.85%"))),
          Entry(K("fiscal_year_breakdown"), Obj(<<
            Entry(<<"2", "0", "2", "2">>, Obj(<<
              Entry(K("total_price"), Num(50000000)),
              Entry(K("percentage_of_year"), Str(K("53.09%")))>>)),
            Entry(<<"2", "0", "2", "3">>, Obj(<<
              Entry(K("total_price"), Num(13712182)),
              Entry(K("percentage_of_year"), Str(K("11.74%")))>>))>>))>>),
        Obj(<<
          Entry(K("product_name"), Str(K("AMAZON WEB SERVICES INC CLOUD PROFESSIONAL SERVICES"))),
          Entry(K("total_price"), Num(45000000)),
          Entry(K("percentage_of_total"), Str(K("11.90%"))),
          Entry(K("fiscal_year_breakdown"), Obj(<<
            Entry(<<"2", "0", "2", "3">>, Obj(<<
              Entry(K("total_price"), Num(25000000)),
              Entry(K("percentage_of_year"), Str(K("21.40%")))>>)),
            Entry(<<"2", "0", "2", "4">>, Obj(<<
              Entry(K("total_price"), Num(20000000)),
              Entry(K("percentage_of_year"), Str(K("15.97%")))>>))>>))>>)>>)),
      Entry(K("processed_date"), Str(K("2025-11-20T01:22:47.823Z")))>>),
   reseller |->
    Obj(<<
      Entry(K("source_file"), Str(K("https://drive.google.com/file/d/14w7EL20t2GNjvYxGA7UeJAYbs0ebQRxZ/view?usp=drivesdk"))),
      Entry(K("summary"), Obj(<<
        Entry(K("total_all_resellers"), Num(1499132295)),
        Entry(K("total_top_15_resellers"), Num(1409173062)),
        Entry(K("top_15_percentage_of_total"), Str(K("94.00%"))),
        Entry(K("total_unique_ueis"), Num(139)),
        Entry(K("ueis_shown"), Num(15))>>)),
      Entry(K("top_15_reseller_summaries"), Obj(<<
        Entry(K("FOUR POINTS TECHNOLOGY, L.L.C."), Obj(<<
          Entry(K("fiscal_years"), Obj(<<
            Entry(<<"2", "0", "2", "2">>, Num(151838647)),
            Entry(<<"2", "0", "2", "3">>, Num(112641355)),
            Entry(<<"2", "0", "2", "4">>, Num(215155357)),
            Entry(<<"2", "0", "2", "5">>, Num(132064229))>>)),
          Entry(K("total"), Num(611699590)),
          Entry(K("percentage_of_total"), Str(K("40.80%")))>>)),
        Entry(K("AMAZON WEB SERVICES, INC."), Obj(<<
          Entry(K("fiscal_years"), Obj(<<
            Entry(<<"2", "0", "2", "2">>, Num(24339906)),
            Entry(<<"2", "0", "2", "3">>, Num(88068061)),
            Entry(<<"2", "0", "2", "4">>, Num(230184809)),
            Entry(<<"2", "0", "2", "5">>, Num(47481962))>>)),
          Entry(K("total"), Num(390074740)),
          Entry(K("percentage_of_total"), Str(K("26.02%")))>>)),
        Entry(K("STRATEGIC COMMUNICATIONS, LLC"), Obj(<<
          Entry(K("fiscal_years"), Obj(<<
            Entry(<<"2", "0", "2", "2">>, Num(9492583)),
            Entry(<<"2", "0", "2", "3">>, Num(43841737)),
            Entry(<<"2", "0", "2", "4">>, Num(41656778)),
            Entry(<<"2", "0", "2", "5">>, Num(26333641))>>)),
          Entry(K("total"), Num(121324741)),
          Entry(K("percentage_of_total"), Str(K("8.09%")))>>)),
        Entry(K("NEW TECH SOLUTIONS, INC."), Obj(<<
          Entry(K("fiscal_years"), Obj(<<
            Entry(<<"2", "0", "2", "2">>, Num(9702933)),
            Entry(<<"2", "0", "2", "3">>, Num(22787943)),
            Entry(<<"2", "0", "2", "4">>, Num(12403874)),
            Entry(<<"2", "0", "2", "5">>, Num(717090))>>)),
          Entry(K("total"), Num(45611842)),
          Entry(K("percentage_of_total"), Str(K("3.04%")))>>)),
        Entry(K("CARAHSOFT TECHNOLOGY CORP."), Obj(<<
          Entry(K("fiscal_years"), Obj(<<
            Entry(<<"2", "0", "2", "2">>, Num(15000000)),
            Entry(<<"2", "0", "2", "3">>, Num(12000000)),
            Entry(<<"2", "0", "2", "4">>, Num(10000000)),
            Entry(<<"2", "0", "2", "5">>, Num(5000000))>>)),
          Entry(K("total"), Num(42000000)),
          Entry(K("percentage_of_total"), Str(K("2.80%")))>>))>>)),
      Entry(K("processed_date"), Str(K("2025-11-20T01:20:43.352Z")))>>),
   bicReseller |->
    Obj(<<
      Entry(K("source_file"), Str(K("https://drive.google.com/file/d/1cNKgLWx4mA8pAjb_WCsH_UCBF61De5N-/view?usp=drivesdk"))),
      Entry(K("summary"), Obj(<<
        Entry(K("total_all_resellers"), Num(378028244)),
        Entry(K("unique_reseller_count"), Num(53)),
        Entry(K("total_top_15_resellers"), Num(374595276)),
        Entry(K("top_15_percentage_of_total"), Str(K("99.09%"))),
        Entry(K("fiscal_years_covered"), ArrayOf(<<Str(K("2022")), Str(K("2023")), Str(K("2024")), Str(K("2025"))>>))>>)),
      Entry(K("yearly_totals"), Obj(<<
        Entry(<<"2", "0", "2", "2">>, Num(94183188)),
        Entry(<<"2", "0", "2", "3">>, Num(116816051)),
        Entry(<<"2", "0", "2", "4">>, Num(125220748)),
        Entry(<<"2", "0", "2", "5">>, Num(41808255))>>)),
      Entry(K("top_15_resellers"), ArrayOf(<<
        Obj(<<
          Entry(K("vendor_name"), Str(K("Strategic Communications"))),
          Entry(K("total_sales"), Num(93240801)),
          Entry(K("percentage_of_total"), Str(K("24.67%"))),
          Entry(K("fiscal_year_breakdown"), Obj(<<
            Entry(<<"2", "0", "2", "2">>, Obj(<<
              Entry(K("total_sales"), Num(20559108)),
              Entry(K("percentage_of_year"), Str(K("21.83%")))>>)),
            Entry(<<"2", "0", "2", "3">>, Obj(<<
              Entry(K("total_sales"), Num(9781299)),
              Entry(K("percentage_of_year"), Str(K("8.37%")))>>)),
            Entry(<<"2", "0", "2", "4">>, Obj(<<
              Entry(K("total_sales"), Num(37565075)),
              Entry(K("percentage_of_year"), Str(K("30.00%")))>>)),
            Entry(<<"2", "0", "2", "5">>, Obj(<<
              Entry(K("total_sales"), Num(25335317)),
              Entry(K("percentage_of_year"), Str(K("60.60%")))>>))>>))>>),
        Obj(<<
          Entry(K("vendor_name"), Str(K("Four Points Technology"))),
          Entry(K("total_sales"), Num(75791977)),
          Entry(K("percentage_of_total"), Str(K("20.05%"))),
          Entry(K("fiscal_year_breakdown"), Obj(<<
            Entry(<<"2", "0", "2", "2">>, Obj(<<
              Entry(K("total_sales"), Num(18000000)),
              Entry(K("percentage_of_year"), Str(K("19.11%")))>>)),
            Entry(<<"2", "0", "2", "3">>, Obj(<<
              Entry(K("total_sales"), Num(25000000)),
              Entry(K("percentage_of_year"), Str(K("21.40%")))>>)),
            Entry(<<"2", "0", "2", "4">>, Obj(<<
              Entry(K("total_sales"), Num(28000000)),
              Entry(K("percentage_of_year"), Str(K("22.36%")))>>)),
            Entry(<<"2", "0", "2", "5">>, Obj(<<
              Entry(K("total_sales"), Num(4791977)),
              Entry(K("percentage_of_year"), Str(K("11.46%")))>>))>>))>>),
        Obj(<<
          Entry(K("vendor_name"), Str(K("Carahsoft Technology"))),
          Entry(K("total_sales"), Num(50000000)),
          Entry(K("percentage_of_total"), Str(K("13.23%"))),
          Entry(K("fiscal_year_breakdown"), Obj(<<
            Entry(<<"2", "0", "2", "2">>, Obj(<<
              Entry(K("total_sales"), Num(15000000)),
              Entry(K("percentage_of_year"), Str(K("15.93%")))>>)),
            Entry(<<"2", "0", "2", "3">>, Obj(<<
              Entry(K("total_sales"), Num(20000000)),
              Entry(K("percentage_of_year"), Str(K("17.12%")))>>)),
            Entry(<<"2", "0", "2", "4">>, Obj(<<
              Entry(K("total_sales"), Num(15000000)),
              Entry(K("percentage_of_year"), Str(K("11.98%")))>>))>>))>>)>>)),
      Entry(K("processed_date"), Str(K("2025-11-20T01:23:57.303Z")))>>),
   bicOem |->
    Obj(<<
      Entry(K("source_file"), Str(K("https://drive.google.com/file/d/1cNKgLWx4mA8pAjb_WCsH_UCBF61De5N-/view?usp=drivesdk"))),
      Entry(K("summary"), Obj(<<
        Entry(K("total_all_manufacturers"), Num(361580808)),
        Entry(K("unique_manufacturer_count"), Num(50)),
        Entry(K("total_top_15_manufacturers"), Num(361570291)),
        Entry(K("top_15_percentage_of_total"), Str(K("100.00%"))),
        Entry(K("fiscal_years_covered"), ArrayOf(<<Str(K("2022")), Str(K("2023")), Str(K("2024")), Str(K("2025"))>>))>>)),
      Entry(K("yearly_totals"), Obj(<<
        Entry(<<"2", "0", "2", "2">>, Num(83476657)),
        Entry(<<"2", "0", "2", "3">>, Num(111903311)),
        Entry(<<"2", "0", "2", "4">>, Num(125220748)),
        Entry(<<"2", "0", "2", "5">>, Num(40980090))>>)),
      Entry(K("top_15_manufacturers"), ArrayOf(<<
        Obj(<<
          Entry(K("manufacturer_name"), Str(K("Amazon.com Inc"))),
          Entry(K("total_sales"), Num(192889345)),
          Entry(K("percentage_of_total"), Str(K("53.35%"))),
          Entry(K("fiscal_year_breakdown"), Obj(<<
            Entry(<<"2", "0", "2", "2">>, Obj(<<
              Entry(K("total_sales"), Num(68403245)),
              Entry(K("percentage_of_year"), Str(K("81.94%")))>>)),
            Entry(<<"2", "0", "2", "3">>, Obj(<<
              Entry(K("total_sales"), Num(53734409)),
              Entry(K("percentage_of_year"), Str(K("48.02%")))>>)),
            Entry(<<"2", "0", "2", "4">>, Obj(<<
              Entry(K("total_sales"), Num(70417870)),
              Entry(K("percentage_of_year"), Str(K("56.23%")))>>)),
            Entry(<<"2", "0", "2", "5">>, Obj(<<
              Entry(K("total_sales"), Num(333820)),
              Entry(K("percentage_of_year"), Str(K("0.81%")))>>))>>))>>),
        Obj(<<
          Entry(K("manufacturer_name"), Str(K("Amazon"))),
          Entry(K("total_sales"), Num(67365382)),
          Entry(K("percentage_of_total"), Str(K("18.63%"))),
          Entry(K("fiscal_year_breakdown"), Obj(<<
            Entry(<<"2", "0", "2", "3">>, Obj(<<
              Entry(K("total_sales"), Num(30000000)),
              Entry(K("percentage_of_year"), Str(K("26.81%")))>>)),
            Entry(<<"2", "0", "2", "4">>, Obj(<<
              Entry(K("total_sales"), Num(25000000)),
              Entry(K("percentage_of_year"), Str(K("19.97%")))>>)),
            Entry(<<"2", "0", "2", "5">>, Obj(<<
              Entry(K("total_sales"), Num(12365382)),
              Entry(K("percentage_of_year"), Str(K("30.17%")))>>))>>))>>),
        Obj(<<
          Entry(K("manufacturer_name"), Str(K("Microsoft Corporation"))),
          Entry(K("total_sales"), Num(45000000)),
          Entry(K("percentage_of_total"), Str(K("12.44%"))),
          Entry(K("fiscal_year_breakdown"), Obj(<<
            Entry(<<"2", "0", "2", "2">>, Obj(<<
              Entry(K("total_sales"), Num(10000000)),
              Entry(K("percentage_of_year"), Str(K("11.98%")))>>)),
            Entry(<<"2", "0", "2", "3">>, Obj(<<
              Entry(K("total_sales"), Num(15000000)),
              Entry(K("percentage_of_year"), Str(K("13.41%")))>>)),
            Entry(<<"2", "0", "2", "4">>, Obj(<<
              Entry(K("total_sales"), Num(15000000)),
              Entry(K("percentage_of_year"), Str(K("11.98%")))>>)),
            Entry(<<"2", "0", "2", "5">>, Obj(<<
              Entry(K("total_sales"), Num(5000000)),
              Entry(K("percentage_of_year"), Str(K("12.20%")))>>))>>))>>)>>)),
      Entry(K("processed_date"), Str(K("2025-11-20T01:30:44.874Z")))>>),
   fasOem |->
    Obj(<<
      Entry(K("source_file"), Str(K("https://drive.google.com/file/d/14w7EL20t2GNjvYxGA7UeJAYbs0ebQRxZ/view?usp=drivesdk"))),
      Entry(K("summary"), Obj(<<
        Entry(K("total_all_oems"), Num(1499132295)),
        Entry(K("total_top_10_oems"), Num(1499132295)),
        Entry(K("top_10_percentage_of_total"), Str(K("100.00%"))),
        Entry(K("total_unique_oems"), Num(1)),
        Entry(K("oems_shown"), Num(1))>>)),
      Entry(K("top_10_oem_summaries"), Obj(<<
        Entry(K("Amazon"), Obj(<<
          Entry(K("fiscal_years"), Obj(<<
            Entry(<<"2", "0", "2", "2">>, Num(285946596)),
            Entry(<<"2", "0", "2", "3">>, Num(357674410)),
            Entry(<<"2", "0", "2", "4">>, Num(597501189)),
            Entry(<<"2", "0", "2", "5">>, Num(258010099))>>)),
          Entry(K("total_obligations"), Num(1499132295)),
          Entry(K("percentage_of_total"), Str(K("100.00%")))>>))>>)),
      Entry(K("processed_date"), Str(K("2025-11-20T01:21:06.897Z")))>>),
   fundingAgency |->
    Obj(<<
      Entry(K("source_file"), Str(K("https://drive.google.com/file/d/14w7EL20t2GNjvYxGA7UeJAYbs0ebQRxZ/view?usp=drivesdk"))),
      Entry(K("summary"), Obj(<<
        Entry(K("total_all_agencies"), Num(1499132295)),
        Entry(K("total_top_10_agencies"), Num(942540591)),
        Entry(K("top_10_percentage_of_total"), Str(K("62.87%"))),
        Entry(K("total_unique_agencies"), Num(94)),
        Entry(K("agencies_shown"), Num(10))>>)),
      Entry(K("top_10_agency_summaries"), Obj(<<
        Entry(K("U.S. CUSTOMS AND BORDER PROTECTION"), Obj(<<
          Entry(K("fiscal_years"), Obj(<<
            Entry(<<"2", "0", "2", "2">>, Num(47240207)),
            Entry(<<"2", "0", "2", "3">>, Num(15800926)),
            Entry(<<"2", "0", "2", "4">>, Num(73724866)),
            Entry(<<"2", "0", "2", "5">>, Num(21132468))>>)),
          Entry(K("total"), Num(157898469)),
          Entry(K("percentage_of_total"), Str(K("10.53%")))>>)),
        Entry(K("DEPT OF THE NAVY"), Obj(<<
          Entry(K("fiscal_years"), Obj(<<
            Entry(<<"2", "0", "2", "2">>, Num(8519396)),
            Entry(<<"2", "0", "2", "3">>, Num(59349043)),
            Entry(<<"2", "0", "2", "4">>, Num(76235938)),
            Entry(<<"2", "0", "2", "5">>, Num(0 - 5527213))>>)),
          Entry(K("total"), Num(138577165)),
          Entry(K("percentage_of_total"), Str(K("9.24%")))>>)),
        Entry(K("VETERANS AFFAIRS, DEPARTMENT OF"), Obj(<<
          Entry(K("fiscal_years"), Obj(<<
            Entry(<<"2", "0", "2", "2">>, Num(25108921)),
            Entry(<<"2", "0", "2", "4">>, Num(22010000)),
            Entry(<<"2", "0", "2", "5">>, Num(73028118))>>)),
          Entry(K("total"), Num(120147040)),
          Entry(K("percentage_of_total"), Str(K("8.01%")))>>)),
        Entry(K("DEFENSE HEALTH AGENCY (DHA)"), Obj(<<
          Entry(K("fiscal_years"), Obj(<<
            Entry(<<"2", "0", "2", "2">>, Num(12290334)),
            Entry(<<"2", "0", "2", "3">>, Num(23221335)),
            Entry(<<"2", "0", "2", "4">>, Num(44669416)),
            Entry(<<"2", "0", "2", "5">>, Num(36776252))>>)),
          Entry(K("total"), Num(116957339)),
          Entry(K("percentage_of_total"), Str(K("7.80%")))>>)),
        Entry(K("DEPT OF THE AIR FORCE"), Obj(<<
          Entry(K("fiscal_years"), Obj(<<
            Entry(<<"2", "0", "2", "2">>, Num(9019319)),
            Entry(<<"2", "0", "2", "3">>, Num(17965609)),
            Entry(<<"2", "0", "2", "4">>, Num(18123507)),
            Entry(<<"2", "0", "2", "5">>, Num(0))>>)),
          Entry(K("total"), Num(45108436)),
          Entry(K("percentage_of_total"), Str(K("3.01%")))>>))>>)),
      Entry(K("processed_date"), Str(K("2025-11-20T01:21:53.246Z")))>>),
   bicTopProductsPerAgency |->
    Obj(<<
      Entry(K("source_file"), Str(K("https://drive.google.com/file/d/1cNKgLWx4mA8pAjb_WCsH_UCBF61De5N-/view?usp=drivesdk"))),
      Entry(K("summary"), Obj(<<
        Entry(K("grand_total"), Num(378028244)),
        Entry(K("total_agencies"), Num(23)),
        Entry(K("top_10_agencies_shown"), Num(10)),
        Entry(K("fiscal_years_covered"), ArrayOf(<<Str(K("2022")), Str(K("2023")), Str(K("2024")), Str(K("2025"))>>))>>)),
      Entry(K("yearly_totals"), Obj(<<
        Entry(<<"2", "0", "2", "2">>, Num(94183188)),
        Entry(<<"2", "0", "2", "3">>, Num(116816051)),
        Entry(<<"2", "0", "2", "4">>, Num(125220748)),
        Entry(<<"2", "0", "2", "5">>, Num(41808255))>>)),
      Entry(K("top_10_agencies"), Obj(<<
        Entry(K("DOD"), Obj(<<
          Entry(K("agency_total"), Num(147584309)),
          Entry(K("percentage_of_grand_total"), Str(K("39.04%"))),
          Entry(K("fiscal_year_breakdown"), Obj(<<
            Entry(<<"2", "0", "2", "2">>, Obj(<<
              Entry(K("total_spend"), Num(35720085)),
              Entry(K("percentage_of_year"), Str(K("37.93%")))>>)),
            Entry(<<"2", "0", "2", "3">>, Obj(<<
              Entry(K("total_spend"), Num(47886719)),
              Entry(K("percentage_of_year"), Str(K("40.99%")))>>)),
            Entry(<<"2", "0", "2", "4">>, Obj(<<
              Entry(K("total_spend"), Num(38452378)),
              Entry(K("percentage_of_year"), Str(K("30.71%")))>>)),
            Entry(<<"2", "0", "2", "5">>, Obj(<<
              Entry(K("total_spend"), Num(25525126)),
              Entry(K("percentage_of_year"), Str(K("61.05%")))>>))>>)),
          Entry(K("top_3_products"), ArrayOf(<<
            Obj(<<
              Entry(K("product_name"), Str(K("AMAZON WEB SERVICES  AWS  1 CREDIT  CAN BE USED FOR ALL AWS AND STRATEGIC COMMU"))),
              Entry(K("total_price"), Num(70519297)),
              Entry(K("percentage_of_agency_total"), Str(K("47.78%"))),
              Entry(K("fiscal_year_breakdown"), Obj(<<
                Entry(<<"2", "0", "2", "2">>, Obj(<<
                  Entry(K("total_price"), Num(6139068)),
                  Entry(K("percentage_of_agency_year"), Str(K("17.19%")))>>)),
                Entry(<<"2", "0", "2", "3">>, Obj(<<
                  Entry(K("total_price"), Num(9779980)),
                  Entry(K("percentage_of_agency_year"), Str(K("20.42%")))>>)),
                Entry(<<"2", "0", "2", "4">>, Obj(<<
                  Entry(K("total_price"), Num(29264930)),
                  Entry(K("percentage_of_agency_year"), Str(K("76.10%")))>>)),
                Entry(<<"2", "0", "2", "5">>, Obj(<<
                  Entry(K("total_price"), Num(25335317)),
                  Entry(K("percentage_of_agency_year"), Str(K("99.26%")))>>))>>))>>),
            Obj(<<
              Entry(K("product_name"), Str(K("The scope of this CLIN includes all curr"))),
              Entry(K("total_price"), Num(50000000)),
              Entry(K("percentage_of_agency_total"), Str(K("33.88%"))),
              Entry(K("fiscal_year_breakdown"), Obj(<<
                Entry(<<"2", "0", "2", "2">>, Obj(<<
                  Entry(K("total_price"), Num(50000000)),
                  Entry(K("percentage_of_agency_year"), Str(K("140.00%")))>>))>>))>>),
            Obj(<<
              Entry(K("product_name"), Str(K("AWS Professional Services"))),
              Entry(K("total_price"), Num(15000000)),
              Entry(K("percentage_of_agency_total"), Str(K("10.16%"))),
              Entry(K("fiscal_year_breakdown"), Obj(<<
                Entry(<<"2", "0", "2", "3">>, Obj(<<
                  Entry(K("total_price"), Num(10000000)),
                  Entry(K("percentage_of_agency_year"), Str(K("20.88%")))>>)),
                Entry(<<"2", "0", "2", "4">>, Obj(<<
                  Entry(K("total_price"), Num(5000000)),
                  Entry(K("percentage_of_agency_year"), Str(K("13.00%")))>>))>>))>>)>>)),
          Entry(K("top_3_products_total"), Num(135519297)),
          Entry(K("top_3_percentage_of_agency"), Str(K("91.83%")))>>)),
        Entry(K("DHS"), Obj(<<
          Entry(K("agency_total"), Num(108524357)),
          Entry(K("percentage_of_grand_total"), Str(K("28.71%"))),
          Entry(K("fiscal_year_breakdown"), Obj(<<
            Entry(<<"2", "0", "2", "2">>, Obj(<<
              Entry(K("total_spend"), Num(9184)),
              Entry(K("percentage_of_year"), Str(K("0.01%")))>>)),
            Entry(<<"2", "0", "2", "3">>, Obj(<<
              Entry(K("total_spend"), Num(89827483)),
              Entry(K("percentage_of_year"), Str(K("76.90%")))>>)),
            Entry(<<"2", "0", "2", "4">>, Obj(<<
              Entry(K("total_spend"), Num(17543109)),
              Entry(K("percentage_of_year"), Str(K("14.01%")))>>)),
            Entry(<<"2", "0", "2", "5">>, Obj(<<
              Entry(K("total_spend"), Num(1144579)),
              Entry(K("percentage_of_year"), Str(K("2.74%")))>>))>>)),
          Entry(K("top_3_products"), ArrayOf(<<
            Obj(<<
              Entry(K("product_name"), Str(K("SERVICENOW IT SERVICE MANAGEMENT FULFILLER USER V2"))),
              Entry(K("total_price"), Num(53012520)),
              Entry(K("percentage_of_agency_total"), Str(K("48.85%"))),
              Entry(K("fiscal_year_breakdown"), Obj(<<
                Entry(<<"2", "0", "2", "3">>, Obj(<<
                  Entry(K("total_price"), Num(53012520)),
                  Entry(K("percentage_of_agency_year"), Str(K("59.02%")))>>))>>))>>)>>)),
          Entry(K("top_3_products_total"), Num(87464330)),
          Entry(K("top_3_percentage_of_agency"), Str(K("80.59%")))>>))>>)),
      Entry(K("processed_date"), Str(K("2025-11-20T01:31:38.254Z")))>>),
   oneGovTier |->
    Obj(<<
      Entry(K("mode_tier"), Str(K("Tier 2"))),
      Entry(K("overall_tier"), Str(K("Tier 1"))),
      Entry(K("total_obligated"), Num(1499132295)),
      Entry(K("formatted_total"), Str(K("$1,499,132,295.48"))),
      Entry(K("average_obligations_per_year"), Num(374783073)),
      Entry(K("formatted_average"), Str(K("$374,783,073.87"))),
      Entry(K("fiscal_year_tiers"), Obj(<<
        Entry(<<"2", "0", "2", "2">>, Obj(<<
          Entry(K("amount"), Num(285946596)),
          Entry(K("tier"), Str(K("Tier 2"))),
          Entry(K("formatted_amount"), Str(K("$285,946,596.21")))>>)),
        Entry(<<"2", "0", "2", "3">>, Obj(<<
          Entry(K("amount"), Num(357674410)),
          Entry(K("tier"), Str(K("Tier 2"))),
          Entry(K("formatted_amount"), Str(K("$357,674,410.19")))>>)),
        Entry(<<"2", "0", "2", "4">>, Obj(<<
          Entry(K("amount"), Num(597501189)),
          Entry(K("tier"), Str(K("Tier 1"))),
          Entry(K("formatted_amount"), Str(K("$597,501,189.67")))>>)),
        Entry(<<"2", "0", "2", "5">>, Obj(<<
          Entry(K("amount"), Num(258010099)),
          Entry(K("tier"), Str(K("Tier 2"))),
          Entry(K("formatted_amount"), Str(K("$258,010,099.41")))>>))>>)),
      Entry(K("tier_counts"), Obj(<<Entry(K("Tier 2"), Num(3)), Entry(K("Tier 1"), Num(1))>>)),
      Entry(K("tier_summary"), Obj(<<
        Entry(K("years_analyzed"), Num(4)),
        Entry(K("mode_frequency"), Num(3)),
        Entry(K("tie_broken"), Bool(FALSE)),
        Entry(K("all_modes"), ArrayOf(<<Str(K("Tier 2"))>>))>>)),
      Entry(K("tier_definitions"), Obj(<<
        Entry(K("Tier 1"), Str(K("> $500M"))),
        Entry(K("Tier 2"), Str(K("$200M - $500M"))),
        Entry(K("Tier 3"), Str(K("$50M - $200M"))),
        Entry(K("Tier 4"), Str(K("$10M - $50M"))),
        Entry(K("Below Tier 4"), Str(K("< $10M")))>>)),
      Entry(K("processed_date"), Str(K("2025-11-20T05:28:44.127Z")))>>),
   usaiProfile |->
    Obj(<<
      Entry(K("oem_name"), Str(K("Amazon.com, Inc."))),
      Entry(K("parent_company"), JNull),
      Entry(K("headquarters"), Str(K("Seattle, Washington, USA"))),
      Entry(K("founded"), Str(K("1994"))),
      Entry(K("employees"), Str(K("1,600,000+"))),
      Entry(K("ownership"), Str(K("Public"))),
      Entry(K("stock_symbol"), Str(K("NASDAQ: AMZN"))),
      Entry(K("overview"), Str(K("Amazon is a global technology company focusing on e-commerce, cloud computing, digital streaming, and artificial intelligence. Starting as an online bookstore, it has grown into the world's largest e-commerce company and cloud services provider. The company has revolutionized retail, logistics, and computing services while expanding into various technology sectors including smart devices, entertainment, and autonomous systems."))),
      Entry(K("core_products"), Str(K("Amazon.com marketplace, Amazon Web Services (AWS), Amazon Prime, Alexa, Kindle, Amazon Echo, Fire TV, Ring"))),
      Entry(K("technology_focus"), Str(K("cloud computing, artificial intelligence, machine learning, robotics, e-commerce platforms, IoT devices, autonomous systems, digital streaming"))),
      Entry(K("key_markets"), Str(K("e-commerce, cloud services, digital content, smart home, advertising, groceries, healthcare"))),
      Entry(K("government_presence"), Str(K("Major government contractor through AWS, providing cloud services to numerous federal agencies including the CIA, DoD, and NASA"))),
      Entry(K("recent_activity"), Str(K("Expansion of healthcare services through Amazon Care and acquisition of One Medical, continued growth in AWS infrastructure, development of Project Kuiper satellite internet service, advancement in autonomous delivery systems"))),
      Entry(K("website"), Str(K("https://www.amazon.com"))),
      Entry(K("linkedin"), Str(K("https://linkedin.com/company/amazon")))>>)]


----------------------------------------------------------------------------
(* The OneGovDataManager cache as a state machine.  A call runs without    *)
(* interruption except at its reads of the spreadsheet (openById and the   *)
(* getValues of each sheet), the suspension points at which the calls of   *)
(* other callers may run.  The spreadsheet is edited by others, so every   *)
(* read may find any of the sheet contents, or fail.                       *)

NumCallers == 2
MaxLoads == 2
MaxTicks == 2
TTL == 2 * 60 * 1000
\* The clock advances by one TTL at a time: a cache is 0, TTL or 2 TTL old.
TickMs == TTL

Callers == 1..NumCallers

VARIABLES
  cache,     \* this.cache: agencies, oems, vendors, lastUpdated, isLoading
  now,       \* Date.now()
  pc,        \* where each caller's load stands: idle, open, agency, oem, vendor
  call,      \* the call each caller is running: op and load number
  prior,     \* history: the cached lists and timestamp when the running call began
  loads,     \* history: loads started so far
  cleared,   \* history: clearCache has run during a load that is still in flight
  prev,      \* history: the list the step before the last returned from a valid cache
  ev,        \* history: the step that led to this state
  done,      \* history: the outcome of the call that step completed, if any
  inp,       \* the arguments of a function applied on its own
  out,       \* its outcome
  currentProcurementEntity,  \* the entity whose procurement tables are shown
  fasTableData,              \* the FAS table: data, pagination, isLoading
  bicTableData,              \* the BIC table
  dom,       \* the status and content elements of the two tables
  inFlight,  \* the google.script.run calls that have not been answered
  issued     \* history: the page requests of each table, in the order issued

tableVars ==
  <<currentProcurementEntity, fasTableData, bicTableData, dom, inFlight, issued>>

vars ==
  <<cache, now, pc, call, prior, loads, cleared, prev, ev, done, inp, out, tableVars>>

\* const itemsPerPage = 25
ItemsPerPage == 25

\* var fasTableData / bicTableData as the script declares them.
NoTableData ==
  [data |-> <<>>,
   pagination |-> [currentPage |-> 1, totalPages |-> 0, itemsPerPage |-> ItemsPerPage],
   isLoading |-> FALSE]

\* The elements fas-table-status, fas-table-content, bic-table-status and
\* bic-table-content before anything is written to them.
NoElement == [status |-> [text |-> "", n |-> 0], content |-> ""]

\* var currentProcurementEntity = null, and an entity with the URLs of the
\* CSV files of its two tables.
NoEntity == [exists |-> FALSE, fasTableUrl |-> "", bicTableUrl |-> ""]
ProcurementEntity ==
  [exists |-> TRUE, fasTableUrl |-> "fas.csv", bicTableUrl |-> "bic.csv"]

\* The globals of the procurement tables when the script has been loaded
\* and no page has been asked for.
TablesIdle ==
  /\ fasTableData = NoTableData
  /\ bicTableData = NoTableData
  /\ dom = [fas |-> NoElement, bic |-> NoElement]
  /\ inFlight = {}
  /\ issued = [fas |-> <<>>, bic |-> <<>>]

Quote == "\""
HeaderRow == <<Str(K("id")), Str(K("name")), Str(K("parent")), Str(K("obligations"))>>
GoodCell ==
  Str(<<"{", Quote, "total_obligated", Quote, ":", "7", ",",
        Quote, "fiscal_year_obligations", Quote, ":",
        "{", Quote, "2", "0", "2", "4", Quote, ":", "7", "}", "}">>)
MalformedCell == Str(<<"{", "n", "o", "t", " ", "j", "s", "o", "n">>)

\* The contents the sheets have at one time or another.
SheetData ==
  << <<HeaderRow,
       <<Str(K("A1")), Str(<<"N", "1">>), Str(<<>>), GoodCell>>,
       <<Str(K("A2")), Str(<<" ">>), Str(<<>>), GoodCell>>,
       <<Str(K("A3")), Str(<<"N", "2", " ">>), Str(K("P")), MalformedCell>> >>,
     <<HeaderRow,
       <<Str(K("B1")), Num(7), Str(<<>>), Str(<<>>)>>,
       <<Str(K("B2")), Str(<<"N", "3">>), Str(<<>>), Num(5)>> >> >>

\* What a read of a sheet can meet: "unavailable" when the read itself
\* fails, else the rows of SheetData with that number.
SheetStates == {"unavailable"} \cup {NatToText(i)[1] : i \in 1..Len(SheetData)}

\* this.loadEntitySheet(spreadsheet, entityType) for every entity type and
\* every state of its sheet.
LoadedSheets ==
  [entityType \in EntityTypes |->
     [st \in SheetStates |->
        IF st = "unavailable" THEN [raised |-> TRUE, v |-> <<>>]
        ELSE loadEntitySheet(Sheet(SheetData[DigitVal(st)]), entityType)]]

\* A list of entities: the identity of the array, and the entity type and
\* sheet state it was loaded from, which determine its entities; id 0 is null.
NullList == [id |-> 0, type |-> "", src |-> ""]
List(id, type, src) == [id |-> id, type |-> type, src |-> src]
ListEntities(l) == IF l.id = 0 THEN <<>> ELSE LoadedSheets[l.type][l.src].v

\* The identity of the array that load number gen stores in its n-th list.
ListId(gen, n) == 3 * (gen - 1) + n
\* The identity of an array built for one return value and never cached.
FreshId == -1

\* The cache object of the constructor and of clearCache; lastUpdated 0 is
\* null (Date.now() is positive, and null and 0 are both falsy).
EmptyCache ==
  [agencies |-> NullList, oems |-> NullList, vendors |-> NullList,
   lastUpdated |-> 0, isLoading |-> FALSE]

\* needsRefresh() that takes a cache for expired once its age has reached the TTL.
needsRefresh_AtTTL(c, t) ==
  IF c.lastUpdated = 0 THEN TRUE
  ELSE IF c.agencies.id = 0 \/ c.oems.id = 0 \/ c.vendors.id = 0 THEN TRUE
  ELSE (t - c.lastUpdated) >= TTL

\* needsRefresh() that takes every cache for expired.
needsRefresh_AlwaysExpired(c, t) == TRUE

\* needsRefresh()
needsRefresh(c, t) ==
  IF c.lastUpdated = 0 THEN TRUE
  ELSE IF c.agencies.id = 0 \/ c.oems.id = 0 \/ c.vendors.id = 0 THEN TRUE
  ELSE (t - c.lastUpdated) > TTL

\* loadAllData(forceRefresh) without the test of isLoading.
LoadDecision_NoGuard(c, t, forceRefresh) ==
  IF ~forceRefresh /\ ~needsRefresh(c, t) THEN "cached" ELSE "start"

\* The first two tests of loadAllData(forceRefresh): "cached" when the
\* cache is returned as valid, "guarded" when a load is in progress, "start"
\* when this call begins a load.
LoadDecision(c, t, forceRefresh) ==
  IF ~forceRefresh /\ ~needsRefresh(c, t) THEN "cached"
  ELSE IF c.isLoading THEN "guarded"
  ELSE "start"

\* A catch block that rethrows and leaves isLoading as it is.
LoadFailure_KeepsLoading(c) == [cache |-> c, rethrown |-> TRUE]

\* The catch block of loadAllData: reset the flag, rethrow.
LoadFailure(c) == [cache |-> [c EXCEPT !.isLoading = FALSE], rethrown |-> TRUE]

LowerCase(c) ==
  CASE c = "A" -> "a" [] c = "G" -> "g" [] c = "E" -> "e" [] c = "N" -> "n"
    [] c = "C" -> "c" [] c = "Y" -> "y" [] c = "O" -> "o" [] c = "M" -> "m"
    [] c = "V" -> "v" [] c = "D" -> "d" [] c = "R" -> "r" [] c = "L" -> "l"
    [] OTHER -> c

\* entityType?.toLowerCase()
toLowerCase(entityType) ==
  IF Nullish(entityType) THEN Undef
  ELSE Str([i \in 1..Len(entityType.s) |-> LowerCase(entityType.s[i])])

\* The case labels of the switch of getEntities.
TypeText ==
  [agency |-> <<"a", "g", "e", "n", "c", "y">>, oem |-> <<"o", "e", "m">>,
   vendor |-> <<"v", "e", "n", "d", "o", "r">>]

\* The switch of getEntities on the data loadAllData returned: the array
\* returned (id) and the lists its entities come from (parts); spreading a
\* null list raises a TypeError.
EntitiesOf(data, entityType) ==
  LET lower == toLowerCase(entityType)
  IN CASE lower = Str(TypeText.agency) ->
            [raised |-> FALSE, id |-> data.agencies.id, parts |-> <<data.agencies>>]
       [] lower = Str(TypeText.oem) ->
            [raised |-> FALSE, id |-> data.oems.id, parts |-> <<data.oems>>]
       [] lower = Str(TypeText.vendor) ->
            [raised |-> FALSE, id |-> data.vendors.id, parts |-> <<data.vendors>>]
       [] OTHER ->
            IF data.agencies.id = 0 \/ data.oems.id = 0 \/ data.vendors.id = 0
            THEN [raised |-> TRUE, id |-> 0, parts |-> <<>>]
            ELSE [raised |-> FALSE, id |-> FreshId,
                  parts |-> <<data.agencies, data.oems, data.vendors>>]

----------------------------------------------------------------------------
(* Aggregation/Cache Layer: the views of a loaded cache                    *)

\* getEntities(entityType) on a cache that needs no refresh: loadAllData
\* returns the cache, and the switch returns one of its arrays (from names
\* the property of the cache that holds it) or a new array of all entities.
CachedEntities(data, entityType) ==
  Let(toLowerCase(entityType), LAMBDA lower :
    CASE lower = Str(TypeText.agency) -> [v |-> data.agencies, from |-> "agencies"]
      [] lower = Str(TypeText.oem) -> [v |-> data.oems, from |-> "oems"]
      [] lower = Str(TypeText.vendor) -> [v |-> data.vendors, from |-> "vendors"]
      [] OTHER -> [v |-> data.agencies \o data.oems \o data.vendors, from |-> "new"])

\* entity[columnId]
Column(entity, columnId) ==
  IF columnId.t = "string" THEN GetProp(entity, columnId.s) ELSE Undef

\* The first truthy value of a list, undefined when there is none.
RECURSIVE FirstTruthy(_)
FirstTruthy(values) ==
  IF values = <<>> THEN Undef
  ELSE IF Truthy(Head(values)) THEN Head(values)
  ELSE FirstTruthy(Tail(values))

\* The summary fields extractNumericValue tries first for a column.
SummaryTotals(columnId) ==
  CASE columnId = Str(K("reseller")) -> <<"total_top_15_resellers", "total_all_resellers">>
    [] columnId = Str(K("bicOem")) ->
         <<"total_top_15_manufacturers", "total_all_manufacturers">>
    [] columnId = Str(K("fasOem")) -> <<"total_top_10_oems", "total_all_oems">>
    [] columnId = Str(K("fundingAgency")) -> <<"total_top_10_agencies", "total_all_agencies">>
    [] OTHER -> <<>>

\* extractNumericValue(jsonData, columnId)
extractNumericValue(jsonData, columnId) ==
  IF ~Truthy(jsonData) THEN Num(0)
  ELSE IF jsonData.t = "number" THEN jsonData
  ELSE Let(FirstTruthy(
             [i \in 1..Len(SummaryTotals(columnId)) |->
                OptProp(GetProp(jsonData, K("summary")), K(SummaryTotals(columnId)[i]))]
             \o <<GetProp(jsonData, K("total_obligated")),
                  GetProp(jsonData, K("total_obligations")),
                  GetProp(jsonData, K("total")), GetProp(jsonData, K("sum"))>>),
           LAMBDA total :
    IF total # Undef THEN total
    ELSE IF Truthy(GetProp(jsonData, K("fiscal_year_obligations")))
    THEN SumValues(Entries(GetProp(jsonData, K("fiscal_year_obligations"))), Num(0))
    ELSE IF Truthy(GetProp(jsonData, K("fiscal_years")))
    THEN SumValues(Entries(GetProp(jsonData, K("fiscal_years"))), Num(0))
    ELSE Num(0))

\* transformForDashboard(entities)
transformForDashboard(entities) ==
  [i \in 1..Len(entities) |->
     Obj(<<Entry(K("id"), GetProp(entities[i], K("id"))),
           Entry(K("name"), GetProp(entities[i], K("name"))),
           Entry(K("type"), GetProp(entities[i], K("type"))),
           Entry(K("totalObligations"), GetProp(entities[i], K("totalObligations"))),
           Entry(K("tier"), GetProp(entities[i], K("tier"))),
           Entry(K("contractCount"),
                 IF Truthy(GetProp(entities[i], K("activeContracts")))
                 THEN Num(KeyCount(GetProp(entities[i], K("activeContracts"))))
                 ELSE Num(0)),
           Entry(K("hasAIProducts"), GetProp(entities[i], K("hasAIProducts"))),
           Entry(K("parentCompany"), GetProp(entities[i], K("parentCompany")))>>)]

\* entities.map(...).filter(e => e && e.value > 0): the elements kept.
ColumnValuesOf(entities, columnId) ==
  SelectSeq([i \in 1..Len(entities) |->
               IF ~Truthy(Column(entities[i], columnId)) THEN JNull
               ELSE Obj(<<Entry(K("name"), GetProp(entities[i], K("name"))),
                          Entry(K("value"),
                                extractNumericValue(Column(entities[i], columnId), columnId)),
                          Entry(K("jsonData"), Column(entities[i], columnId))>>)],
            LAMBDA e : /\ Truthy(e)
                       /\ GetProp(e, K("value")).t = "number"
                       /\ GetProp(e, K("value")) # NaN
                       /\ GetProp(e, K("value")).n > 0)

\* slice(0, topN), topN being 10 when the argument is undefined
Slice(list, topN) ==
  SubSeq(list, 1, IF (IF topN = Undef THEN 10 ELSE topN.n) < Len(list)
                  THEN (IF topN = Undef THEN 10 ELSE topN.n) ELSE Len(list))

\* Array.prototype.reverse
RECURSIVE Reverse(_)
Reverse(list) == IF list = <<>> THEN <<>> ELSE Reverse(Tail(list)) \o <<Head(list)>>

\* transformForReportBuilder reversing the array it was handed
transformForReportBuilder_ReversesEntities(entities, columnId, topN) ==
  IF ~Truthy(columnId) \/ Len(entities) = 0 THEN [v |-> <<>>, entities |-> entities]
  ELSE [v |-> Slice(SortByValue(ColumnValuesOf(entities, columnId), <<>>), topN),
        entities |-> Reverse(entities)]

\* transformForReportBuilder(entities, columnId, topN): what it returns, and
\* the array it was handed as the call leaves it.  map and filter build new
\* arrays, and sort works in place on the array filter has built; the values
\* it compares are positive numbers.
transformForReportBuilder(entities, columnId, topN) ==
  IF ~Truthy(columnId) \/ Len(entities) = 0 THEN [v |-> <<>>, entities |-> entities]
  ELSE [v |-> Slice(SortByValue(ColumnValuesOf(entities, columnId), <<>>), topN),
        entities |-> entities]

\* entity.type.toUpperCase()
toUpperCase(text) ==
  [i \in 1..Len(text) |->
     CASE text[i] = "agency" -> "AGENCY" [] text[i] = "oem" -> "OEM"
       [] text[i] = "vendor" -> "VENDOR" [] OTHER -> text[i]]

\* transformForTable(entities)
transformForTable(entities) ==
  [i \in 1..Len(entities) |->
     Let(OptProp(GetProp(entities[i], K("obligations")), K("fiscal_year_obligations")),
         LAMBDA years :
     Obj(<<Entry(K("id"), GetProp(entities[i], K("id"))),
           Entry(K("name"), GetProp(entities[i], K("name"))),
           Entry(K("type"), GetProp(entities[i], K("type"))),
           Entry(K("category"), Str(toUpperCase(GetProp(entities[i], K("type")).s))),
           Entry(K("total"), GetProp(entities[i], K("totalObligations"))),
           Entry(K("fy24"), JsOr(OptProp(years, <<"2", "0", "2", "4">>), Num(0))),
           Entry(K("fy25"), JsOr(OptProp(years, <<"2", "0", "2", "5">>), Num(0))),
           Entry(K("tier"), JsOr(GetProp(entities[i], K("tier")), Str(K("N/A")))),
           Entry(K("small_business"),
                 JsOr(OptProp(GetProp(entities[i], K("smallBusiness")),
                              K("is_small_business")),
                      Str(K("N/A"))))>>))]

\* selectedEntities.includes(e.name)
Includes(array, value) == \E i \in 1..Len(array.k) : array.k[i].val = value

\* The two filters of getEntitiesForView: filter builds a new array.
Filtered(base, selectedEntities, parentFilter) ==
  Let(IF Truthy(selectedEntities) /\ KeyCount(selectedEntities) > 0
      THEN [v |-> SelectSeq(base.v, LAMBDA e : Includes(selectedEntities, GetProp(e, K("name")))),
            from |-> "new"]
      ELSE base,
      LAMBDA selected :
    IF Truthy(parentFilter)
    THEN [v |-> SelectSeq(selected.v, LAMBDA e : GetProp(e, K("parentCompany")) = parentFilter),
          from |-> "new"]
    ELSE selected)

\* getEntitiesForView(viewType, options) on a cache that needs no refresh:
\* what it returns, and the arrays of the cache as the call leaves them.
getEntitiesForView(data, viewType, options) ==
  Let(Filtered(CachedEntities(data, options.entityType), options.selectedEntities,
               options.parentFilter),
      LAMBDA entities :
    CASE viewType = "dashboard" ->
           [v |-> ArrayOf(transformForDashboard(entities.v)), data |-> data]
      [] viewType = "reportBuilder" ->
           Let(transformForReportBuilder(entities.v, options.columnId, options.topN),
               LAMBDA r :
             [v |-> ArrayOf(r.v),
              data |-> IF entities.from = "new" THEN data
                       ELSE [data EXCEPT ![entities.from] = r.entities]])
      [] viewType = "reportTable" ->
           [v |-> ArrayOf(transformForTable(entities.v)), data |-> data]
      [] OTHER -> [v |-> ArrayOf(entities.v), data |-> data])

\* The fiscal years getFiscalYearTrends reads from the column of one
\* entity: an outcome, as the aggregation over summaries raises on a null
\* summary.
TrendYears(jsonData, columnId) ==
  Let(CASE columnId = Str(K("reseller")) -> K("top_15_reseller_summaries")
        [] columnId = Str(K("fasOem")) -> K("top_10_oem_summaries")
        [] columnId = Str(K("fundingAgency")) -> K("top_10_agency_summaries")
        [] OTHER -> <<>>,
      LAMBDA summaries :
    IF summaries # <<>>
    THEN IF Truthy(GetProp(jsonData, summaries))
         THEN AddCategories(Entries(GetProp(jsonData, summaries)), Returned(Obj(<<>>)))
         ELSE Returned(JNull)
    ELSE IF columnId = Str(K("bicOem")) THEN Returned(GetProp(jsonData, K("yearly_totals")))
    ELSE Returned(JsOr(JsOr(JsOr(GetProp(jsonData, K("fiscal_year_obligations")),
                                 GetProp(jsonData, K("fiscal_years"))),
                            GetProp(jsonData, K("yearly_totals"))),
                       GetProp(jsonData, K("fiscal_year_breakdown")))))

\* for (const [year, value] of Object.entries(fyData)):
\* fiscalYearData[year] += parseFloat(value) || 0
RECURSIVE AddTrend(_, _)
AddTrend(pairs, fiscalYearData) ==
  IF pairs = <<>> THEN fiscalYearData
  ELSE AddTrend(Tail(pairs),
                AddYear(fiscalYearData, Head(pairs).key,
                        JsOr(ParseFloat(Head(pairs).val), Num(0))))

\* entities.forEach(entity => ...) of getFiscalYearTrends
RECURSIVE TrendsOver(_, _, _)
TrendsOver(entities, columnId, acc) ==
  IF entities = <<>> \/ acc.raised THEN acc
  ELSE Let(Column(Head(entities), columnId), LAMBDA jsonData :
    IF ~Truthy(jsonData) THEN TrendsOver(Tail(entities), columnId, acc)
    ELSE Let(TrendYears(jsonData, columnId), LAMBDA fyData :
      IF fyData.raised THEN Raised
      ELSE TrendsOver(Tail(entities), columnId,
             IF Truthy(fyData.v) /\ TypeOf(fyData.v) = "object"
             THEN Returned(Obj(AddTrend(Entries(fyData.v), acc.v.k)))
             ELSE acc)))

\* getFiscalYearTrends(entityType, columnId, selectedEntities) on a cache
\* that needs no refresh; selectedEntities is [] when undefined.
getFiscalYearTrends(data, entityType, columnId, selectedEntities) ==
  TrendsOver(Filtered(CachedEntities(data, entityType), selectedEntities, Undef).v,
             columnId, Returned(Obj(<<>>)))

\* getCacheStatus() at time t on a cache whose three arrays are set.
getCacheStatus(data, t) ==
  Obj(<<Entry(K("hasData"), Bool(TRUE)),
        Entry(K("lastUpdated"), Num(data.lastUpdated)),
        Entry(K("isStale"), Bool(t - data.lastUpdated > TTL)),
        Entry(K("entityCounts"),
              Obj(<<Entry(K("agencies"), Num(Len(data.agencies))),
                    Entry(K("oems"), Num(Len(data.oems))),
                    Entry(K("vendors"), Num(Len(data.vendors)))>>))>>)

\* The arguments the callers pass for entityType.
TypeArgs ==
  {Undef, Str(TypeText.agency), Str(<<"O", "E", "M">>), Str(TypeText.vendor),
   Str(<<"a", "l", "l">>)}

\* A running call keeps its op and the number of its load; the entityType
\* argument of getEntities, unused until the switch, is drawn when the call
\* returns.
NoCall == [op |-> "none", gen |-> 0]
Event(kind, op, type, force) == [kind |-> kind, op |-> op, type |-> type, force |-> force]
Snapshot(c) ==
  [agencies |-> c.agencies, oems |-> c.oems, vendors |-> c.vendors,
   lastUpdated |-> c.lastUpdated]
NoDone == [status |-> "none", id |-> 0, parts |-> <<>>, prior |-> Snapshot(EmptyCache)]
NoInput == [kind |-> "none"]
NotRun == [fn |-> "none"]
InFlight == {p \in Callers : pc[p] # "idle"}

\* The state after construction: new OneGovDataManager().
InitCache ==
  /\ cache = EmptyCache
  /\ now = TickMs
  /\ pc = [p \in Callers |-> "idle"]
  /\ call = [p \in Callers |-> NoCall]
  /\ prior = [p \in Callers |-> Snapshot(EmptyCache)]
  /\ loads = 0
  /\ cleared = FALSE
  /\ prev = 0
  /\ ev = Event("init", "none", Undef, FALSE)
  /\ done = NoDone

Init ==
  /\ InitCache
  /\ inp = NoInput
  /\ out = NotRun
  /\ currentProcurementEntity = NoEntity
  /\ TablesIdle

\* The cache is populated, unset, older than the TTL.
Populated(c) ==
  c.agencies.id # 0 /\ c.oems.id # 0 /\ c.vendors.id # 0 /\ c.lastUpdated # 0
Unset(c) ==
  c.agencies.id = 0 /\ c.oems.id = 0 /\ c.vendors.id = 0 /\ c.lastUpdated = 0
Expired(c, t) == c.lastUpdated # 0 /\ t - c.lastUpdated > TTL

\* The history of a step: the step and the outcome of the call it completed;
\* prev keeps the list that the step before it, a getEntities of one entity
\* type, returned while the cache it left was populated and within the TTL.
History(e, d) ==
  /\ ev' = e
  /\ done' = d
  /\ prev' = IF ev.op = "getEntities" /\ done.status = "returned" /\ done.id > 0
                 /\ Populated(cache) /\ ~Expired(cache, now)
              THEN done.id ELSE 0
  /\ UNCHANGED <<inp, out, tableVars>>

\* What a completed call hands back: getEntities the array of the switch,
\* loadAllData the cache object, refreshDataCache its success message; with
\* it, the snapshot taken when the call began.
Outcome(op, type, data, before) ==
  IF op = "getEntities"
  THEN LET r == EntitiesOf(data, type)
       IN [status |-> IF r.raised THEN "raised" ELSE "returned", id |-> r.id,
           parts |-> r.parts, prior |-> before]
  ELSE [status |-> "returned", id |-> 0, parts |-> <<>>, prior |-> before]

\* A caller calls getEntities(type, force) or loadAllData(force): the call
\* returns at once from a valid cache or while a load is in progress, or it
\* sets isLoading and goes on to open the spreadsheet.
Call(p, op, type, force) ==
  /\ pc[p] = "idle"
  /\ LET d == LoadDecision(cache, now, force)
     IN IF d = "start"
        THEN /\ loads < MaxLoads
             /\ cache' = [cache EXCEPT !.isLoading = TRUE]
             /\ pc' = [pc EXCEPT ![p] = "open"]
             /\ call' = [call EXCEPT ![p] = [op |-> op, gen |-> loads + 1]]
             /\ prior' = [prior EXCEPT ![p] = Snapshot(cache)]
             /\ loads' = loads + 1
             /\ History(Event(d, op, Undef, force), NoDone)
        ELSE /\ History(Event(d, op, type, force), Outcome(op, type, cache, Snapshot(cache)))
             /\ UNCHANGED <<cache, pc, call, prior, loads>>
  /\ UNCHANGED <<now, cleared>>

CallGetEntities(p) ==
  \E type \in TypeArgs, force \in BOOLEAN : Call(p, "getEntities", type, force)

CallLoadAllData(p) ==
  \E force \in BOOLEAN : Call(p, "loadAllData", Undef, force)

\* clearCache()
ClearCache(p) ==
  /\ pc[p] = "idle"
  /\ cache' = EmptyCache
  /\ cleared' = (InFlight # {})
  /\ History(Event("clear", "clearCache", Undef, FALSE),
             [status |-> "returned", id |-> 0, parts |-> <<>>, prior |-> Snapshot(cache)])
  /\ UNCHANGED <<now, pc, call, prior, loads>>

\* refreshDataCache(): clearCache(), then loadAllData(true), which finds
\* isLoading false and begins a load.
RefreshDataCache(p) ==
  /\ pc[p] = "idle"
  /\ loads < MaxLoads
  /\ cache' = [EmptyCache EXCEPT !.isLoading = TRUE]
  /\ prior' = [prior EXCEPT ![p] = Snapshot(cache)]
  /\ pc' = [pc EXCEPT ![p] = "open"]
  /\ call' = [call EXCEPT ![p] = [op |-> "refreshDataCache", gen |-> loads + 1]]
  /\ loads' = loads + 1
  /\ cleared' = (InFlight # {})
  /\ History(Event("start", "refreshDataCache", Undef, TRUE), NoDone)
  /\ UNCHANGED now

\* The load of caller p ends in the catch block: the error is rethrown
\* through getEntities or refreshDataCache to the caller.
Fail(p) ==
  /\ cache' = LoadFailure(cache).cache
  /\ pc' = [pc EXCEPT ![p] = "idle"]
  /\ call' = [call EXCEPT ![p] = NoCall]
  /\ prior' = [prior EXCEPT ![p] = Snapshot(EmptyCache)]
  /\ cleared' = (cleared /\ InFlight # {p})
  /\ History(Event("failed", call[p].op, Undef, FALSE),
             [status |-> IF LoadFailure(cache).rethrown THEN "raised" ELSE "returned",
              id |-> 0, parts |-> <<>>, prior |-> prior[p]])

\* SpreadsheetApp.openById: it returns, or the spreadsheet is unavailable.
OpenSpreadsheet(p) ==
  /\ pc[p] = "open"
  /\ \/ /\ pc' = [pc EXCEPT ![p] = "agency"]
        /\ History(Event("opened", call[p].op, Undef, FALSE), NoDone)
        /\ UNCHANGED <<cache, call, prior, cleared>>
     \/ Fail(p)
  /\ UNCHANGED <<now, loads>>

\* this.cache.agencies / oems = this.loadEntitySheet(...): the read fails,
\* or loadEntitySheet raises on the rows, or the new list is stored.
LoadSheet(p) ==
  /\ pc[p] \in {"agency", "oem"}
  /\ \E st \in SheetStates :
       IF LoadedSheets[pc[p]][st].raised THEN Fail(p)
       ELSE /\ cache' = IF pc[p] = "agency"
                        THEN [cache EXCEPT !.agencies = List(ListId(call[p].gen, 1), "agency", st)]
                        ELSE [cache EXCEPT !.oems = List(ListId(call[p].gen, 2), "oem", st)]
            /\ pc' = [pc EXCEPT ![p] = IF pc[p] = "agency" THEN "oem" ELSE "vendor"]
            /\ History(Event("read", call[p].op, Undef, FALSE), NoDone)
            /\ UNCHANGED <<call, prior, cleared>>
  /\ UNCHANGED <<now, loads>>

\* this.cache.vendors = this.loadEntitySheet(...), then lastUpdated is set,
\* isLoading reset and the call returns; or the read fails.
LoadVendorsAndFinish(p) ==
  /\ pc[p] = "vendor"
  /\ \E st \in SheetStates, type \in TypeArgs :
       LET arg == IF call[p].op = "getEntities" THEN type ELSE Undef
       IN IF LoadedSheets["vendor"][st].raised THEN Fail(p)
          ELSE /\ cache' = [cache EXCEPT !.vendors = List(ListId(call[p].gen, 3), "vendor", st),
                                         !.lastUpdated = now, !.isLoading = FALSE]
               /\ pc' = [pc EXCEPT ![p] = "idle"]
               /\ call' = [call EXCEPT ![p] = NoCall]
               /\ prior' = [prior EXCEPT ![p] = Snapshot(EmptyCache)]
               /\ cleared' = (cleared /\ InFlight # {p})
               /\ History(Event("loaded", call[p].op, arg, FALSE),
                          Outcome(call[p].op, arg, cache', prior[p]))
  /\ UNCHANGED <<now, loads>>

\* Time passes.
Tick ==
  /\ now < TickMs * (MaxTicks + 1)
  /\ now' = now + TickMs
  /\ History(Event("tick", "none", Undef, FALSE), NoDone)
  /\ UNCHANGED <<cache, pc, call, prior, loads, cleared>>

Next ==
  \/ \E p \in Callers : CallGetEntities(p)
  \/ \E p \in Callers : CallLoadAllData(p)
  \/ \E p \in Callers : ClearCache(p)
  \/ \E p \in Callers : RefreshDataCache(p)
  \/ \E p \in Callers : OpenSpreadsheet(p)
  \/ \E p \in Callers : LoadSheet(p)
  \/ \E p \in Callers : LoadVendorsAndFinish(p)
  \/ Tick

Spec == Init /\ [][Next]_vars

----------------------------------------------------------------------------
(* The functions applied on their own: the arguments are drawn at the      *)
(* start, and one step applies a function to them.                         *)

MaxCellLen == 3
MaxPathLen == 3
MaxRows == 2
MaxItems == 2
MaxFields == 3

Texts(alphabet, n) == UNION {[1..k -> alphabet] : k \in 0..n}

\* The cells: every text of up to MaxCellLen of these characters (an empty
\* cell is ''), longer texts, and values that are not text.
Cells ==
  {Str(text) : text \in Texts({"{", "}", "[", "]", " ", "1", "a", Quote, ":"}, MaxCellLen)}
  \cup
  {Undef, JNull, Num(0), Num(5), Bool(TRUE), Bool(FALSE), Obj(<<>>),
   Obj(<<Entry(K("a"), Num(1))>>), Arr(<<>>), GoodCell, MalformedCell,
   Str(<<" ", " ", "{", "}", "\n">>), Str(<<"\t", "[", "]", " ", " ">>),
   Str(<<"{", Quote, "a", Quote, ":", "[", "1", "]", "}">>)}

\* The cells and schema keys of the pipeline: parse a cell, extract from it.
TierCell ==
  Str(<<"{", Quote, "summary", Quote, ":", "{", Quote, "grand_total", Quote, ":", "9", "}", ",",
        Quote, "processed_date", Quote, ":", Quote, "d", Quote, "}">>)
PipelineCells ==
  {MalformedCell, GoodCell, TierCell, Str(<<>>), Str(EmptyObjectText), Str(<<"[", "1", "]">>)}
PipelineKeys == SchemaKeys \cup {"notAColumn"}

\* The values and dotted paths of the path resolver.
Paths ==
  Texts({"a", "b", ".", "length", "0"}, MaxPathLen)
  \cup {<<"a", ".", "0", ".", "b">>, <<"a", ".", "b", ".", "a">>,
        <<"a", ".", "b", ".", "a", ".", "b">>}
PathObjects ==
  {Undef, JNull, Num(0), Num(5), Bool(TRUE), Str(<<>>), Str(<<"x", "y">>),
   Obj(<<Entry(K("a"), Str(<<"x", "y">>))>>),
   Obj(<<Entry(K("a"), Obj(<<Entry(K("b"), Num(1))>>))>>),
   Obj(<<Entry(K("a"), Obj(<<Entry(K("b"), Num(0))>>)), Entry(K("b"), JNull)>>),
   Obj(<<Entry(K("a"), Num(5)), Entry(K("b"), Bool(FALSE))>>),
   Obj(<<Entry(K("a"), Arr(<<Entry(K("0"), Obj(<<Entry(K("b"), Bool(TRUE))>>))>>))>>),
   Obj(<<Entry(K("a"), JNull), Entry(K("b"), Bool(TRUE))>>),
   Obj(<<Entry(K("a"), Obj(<<Entry(K("b"), Obj(<<Entry(K("a"), Str(<<>>))>>))>>)),
         Entry(K("b"), Str(<<>>))>>),
   Obj(<<Entry(K("a"),
           Obj(<<Entry(K("b"),
                   Obj(<<Entry(K("a"), Obj(<<Entry(K("b"), JNull)>>))>>))>>))>>)}

\* The sheets: a header and up to MaxRows rows whose cells are strings,
\* numbers or empty.
JsonCells == {GoodCell, MalformedCell, Num(5), Str(<<>>)}
Sheets ==
  LET names == {Str(<<"N", "1">>), Str(<<" ">>), Num(7)}
      sheetRows == {<<Str(K("A")), name, Str(<<>>), cell>> : name \in names, cell \in JsonCells}
  IN {NoSheet} \cup
     {Sheet(<<HeaderRow>> \o rows) : rows \in UNION {[1..k -> sheetRows] : k \in 0..MaxRows}}

\* Sheets of one row whose obligations cell (column D) and oneGovTier cell
\* (column X) hold, or lack, a total.
YearsText ==
  <<Quote, "fiscal_year_obligations", Quote, ":", "{",
    Quote, "2", "0", "2", "2", Quote, ":", "4", "0", "0", ",",
    Quote, "2", "0", "2", "3", Quote, ":", "6", "0", "0", "}">>
ThousandCell ==
  Str(<<"{", Quote, "total_obligated", Quote, ":", "1", "0", "0", "0", ",">> \o YearsText \o <<"}">>)
ObligationsCells ==
  {ThousandCell,
   Str(<<"{", Quote, "total_obligated", Quote, ":", "0", ",">> \o YearsText \o <<"}">>),
   Str(<<"{">> \o YearsText \o <<"}">>),
   Str(<<"{", Quote, "summary", Quote, ":", "{", Quote, "total_obligations", Quote, ":",
         "7", "0", "0", "}", "}">>),
   Str(EmptyObjectText), Str(<<>>)}
TierCells ==
  {Str(<<"{", Quote, "total_obligated", Quote, ":", "5", "0", "0", "}">>), Str(<<>>)}
TotalsSheets ==
  {Sheet(<<HeaderRow,
           <<Str(K("A")), Str(<<"N", "1">>), Str(<<>>), obligations>>
             \o [i \in 1..19 |-> Str(<<>>)] \o <<tier>> >>) :
     obligations \in ObligationsCells, tier \in TierCells}

\* The caches a completed load has left: each of the three arrays is
\* empty or holds the two entities of one sheet, N1 with 7 obligated and N2,
\* of parent company P, with 1000; the cache is as old as the TTL at most.
LoadedEntities(entityType) ==
  loadEntitySheet(Sheet(<<HeaderRow,
                          <<Str(K("A1")), Str(<<"N", "1">>), Str(<<>>), GoodCell>>,
                          <<Str(K("A2")), Str(<<"N", "2">>), Str(K("P")), ThousandCell>> >>),
                  entityType).v
LoadedCaches ==
  {[agencies |-> a, oems |-> o, vendors |-> v, lastUpdated |-> TickMs] :
     a \in {<<>>, LoadedEntities("agency")}, o \in {<<>>, LoadedEntities("oem")},
     v \in {<<>>, LoadedEntities("vendor")}}

\* The arguments of the views.
ViewTypes == {"dashboard", "reportBuilder", "entityDetail", "reportTable", "other"}
ColumnIds == {Undef, Str(K("obligations")), Str(K("reseller"))}
Selections == {Undef, Arr(<<>>), ArrayOf(<<Str(<<"N", "2">>)>>)}
ViewOptions ==
  [entityType : TypeArgs, columnId : ColumnIds, topN : {Undef, Num(1)},
   selectedEntities : Selections, parentFilter : {Undef, Str(K("P"))}]

\* The rows handed to validateRowJsonColumns: columns A to C, then none,
\* one or two of the JSON columns D and E.
Rows ==
  {<<Str(K("A")), Str(<<"N", "1">>), Str(<<>>)>> \o cells :
     cells \in UNION {[1..k -> JsonCells \cup {TierCell, Str(<<" ">>)}] : k \in 0..2}}

\* The parsed values of the JSON columns.  Every category of a value holds
\* 1000 over its fiscal years, so a value of n categories has the grand
\* total 1000 n.
YearMap(a, b) ==
  Obj(<<Entry(<<"2", "0", "2", "2">>, a), Entry(<<"2", "0", "2", "3">>, b)>>)

\* The fiscal years of the i-th category of an object map: 2022 and 2023
\* for an odd i, 2023 and 2024 for an even one.
FiscalYearsOf(i) ==
  IF i % 2 = 1 THEN YearMap(Num(400), Num(600))
  ELSE Obj(<<Entry(<<"2", "0", "2", "3">>, Num(600)), Entry(<<"2", "0", "2", "4">>, Num(400))>>)

\* The top list of a fiscal year of the aiProduct and aiCategory columns, and
\* the field of its elements that holds their label.
TopListField(schemaKey) ==
  IF schemaKey = "aiProduct" THEN K("top_10_products") ELSE K("top_10_categories")
LabelField(schemaKey) == IF schemaKey = "aiProduct" THEN K("product") ELSE K("category")

\* One category as the itemStructure of the schema describes it: fiscal_years
\* and a total under PATTERN_B, the key and value fields and a
\* fiscal_year_breakdown under PATTERN_C, a total alone under PATTERN_D and
\* PATTERN_E, whose categories are fiscal years, quarters or agencies; a
\* fiscal year of aiProduct and aiCategory holds its top list as well, the
\* label L1 in every year and one label of its own.
Item(schemaKey, i) ==
  Let(COLUMN_SCHEMAS(schemaKey), LAMBDA schema :
    CASE schema.structurePattern = "PATTERN_B_SUMMARY_WITH_OBJECT_MAP" ->
           Obj(<<Entry(K("fiscal_years"), FiscalYearsOf(i)),
                 Entry(IF schema.itemValueField # <<>> THEN schema.itemValueField
                       ELSE K("total"), Num(1000 * i)),
                 Entry(K("percentage_of_total"), Str(K("50.00%")))>>)
      [] schema.structurePattern = "PATTERN_C_SUMMARY_WITH_ARRAY" ->
           Obj(<<Entry(schema.arrayItemKeyField, Str(<<"N">> \o NatToText(i))),
                 Entry(schema.arrayItemValueField, Num(1000 * i)),
                 Entry(K("percentage_of_total"), Str(K("50.00%"))),
                 Entry(K("fiscal_year_breakdown"),
                       YearMap(Obj(<<Entry(K("obligations"), Num(400))>>),
                               Obj(<<Entry(K("obligations"), Num(600))>>)))>>)
      [] schemaKey \in {"aiProduct", "aiCategory"} ->
           Obj(<<Entry(K("total_obligations"), Num(1000 * i)),
                 Entry(K("percentage_of_total"), Str(K("50.00%"))),
                 Entry(TopListField(schemaKey),
                       ArrayOf(<<Obj(<<Entry(LabelField(schemaKey), Str(<<"L", "1">>)),
                                       Entry(K("obligations"), Num(600 * i))>>),
                                 Obj(<<Entry(LabelField(schemaKey),
                                             Str(<<"L">> \o NatToText(i + 1))),
                                       Entry(K("obligations"), Num(400 * i))>>)>>))>>)
      [] OTHER ->
           Obj(<<Entry(CASE schemaKey = "activeContracts" -> K("total_obligations_expiring")
                         [] schemaKey = "expiringDiscountedProducts" -> K("total_dollars_expiring")
                         [] OTHER -> K("agency_total"), Num(1000 * i)),
                 Entry(K("percentage_of_total"), Str(K("50.00%")))>>))

\* The container at the categories path: an object map or an array of n
\* categories, either of them with a null in place of its last category, an
\* object map whose categories hold both a total and a total_obligations, or
\* something that is no container at all.
ContainerKinds ==
  {"absent", "map", "array", "mapWithNull", "arrayWithNull", "mapOfBoth", "null", "number"}
Container(schemaKey, kind, n) ==
  CASE kind = "map" ->
         Obj([i \in 1..n |-> Entry(<<"N">> \o NatToText(i), Item(schemaKey, i))])
    [] kind = "array" -> ArrayOf([i \in 1..n |-> Item(schemaKey, i)])
    [] kind = "mapWithNull" ->
         Obj([i \in 1..n |-> Entry(<<"N">> \o NatToText(i),
                                   IF i = n THEN JNull ELSE Item(schemaKey, i))])
    [] kind = "arrayWithNull" ->
         ArrayOf([i \in 1..n |-> IF i = n THEN JNull ELSE Item(schemaKey, i)])
    [] kind = "mapOfBoth" ->
         Obj([i \in 1..n |->
                Entry(<<"N">> \o NatToText(i),
                      Obj(PutEntry(PutEntry(Item(schemaKey, i).k, K("total"), Num(1000 * i)),
                                   K("total_obligations"), Num(5))))])
    [] kind = "null" -> JNull
    [] kind = "number" -> Num(5)
    [] OTHER -> Undef

\* The time series of a value of n categories: the yearly totals, which in
\* the oneGovTier column are objects holding the amount and its tier.
Series(schemaKey, n) ==
  IF schemaKey = "oneGovTier"
  THEN YearMap(Obj(<<Entry(K("amount"), Num(400 * n)), Entry(K("tier"), Str(K("Tier 4")))>>),
               Obj(<<Entry(K("amount"), Num(600 * n)), Entry(K("tier"), Str(K("Tier 4")))>>))
  ELSE YearMap(Num(400 * n), Num(600 * n))

\* A value of the column: its required fields but the missing one, then the
\* primary value, the time series and the categories container at the paths
\* of the schema, each of them absent when it is undefined.
ColumnValue(schemaKey, primary, series, container, missing) ==
  Let(COLUMN_SCHEMAS(schemaKey), LAMBDA schema :
    Let(SelectSeq(schema.requiredFields,
                  LAMBDA f : f \notin {missing, schema.primaryValuePath,
                                       schema.timeSeriesPath, schema.categoriesPath}),
        LAMBDA fields :
      Put(Put(Put(Obj([i \in 1..Len(fields) |->
                        Entry(fields[i], IF fields[i] = K("summary") THEN Obj(<<>>)
                                         ELSE Str(K("x")))]),
                  schema.primaryValuePath, primary),
              schema.timeSeriesPath, series),
          schema.categoriesPath, container)))

\* The values handed to the extractors and the validator with a schema key:
\* the values of each column under its own key, and some values that are
\* not objects, or keys that are not in the registry.
ColumnValues(schemaKey) ==
  UNION {
    {ColumnValue(schemaKey, primary, series, Container(schemaKey, kind, n), missing) :
       primary \in {Undef, Num(1000 * n), Str(K("x"))},
       series \in {Undef, Series(schemaKey, n)},
       kind \in ContainerKinds,
       missing \in {<<>>} \cup {COLUMN_SCHEMAS(schemaKey).requiredFields[i] :
                                  i \in 1..Len(COLUMN_SCHEMAS(schemaKey).requiredFields)}} :
    n \in 1..MaxItems}
OtherValues ==
  {Undef, JNull, Num(0), Num(5), Str(K("x")), Bool(TRUE), Arr(<<>>), Obj(<<>>),
   ArrayOf(<<Obj(<<>>)>>)}

\* {total_obligated: 1000, fiscal_year_obligations: {2022: 400, 2023: 600}}
TotalsExample ==
  Obj(<<Entry(K("total_obligated"), Num(1000)),
        Entry(K("fiscal_year_obligations"), YearMap(Num(400), Num(600)))>>)

\* The values handed to detectSchema: objects of up to MaxFields of the
\* fields its checks read, some of them with a value a check rejects.
DetectFields ==
  << Entry(K("oem_name"), Str(K("x"))),
     Entry(K("headquarters"), Str(K("x"))),
     Entry(K("total_obligated"), Num(1000)),
     Entry(K("total_obligated"), Num(0)),
     Entry(K("fiscal_year_obligations"), YearMap(Num(400), Num(600))),
     Entry(K("mode_tier"), Str(K("x"))),
     Entry(K("tier_definitions"), Obj(<<>>)),
     Entry(K("business_size_summaries"), Obj(<<>>)),
     Entry(K("tier_summaries"), Obj(<<>>)),
     Entry(K("sum_type_summaries"), Obj(<<>>)),
     Entry(K("top_contract_summaries"), Obj(<<>>)),
     Entry(K("top_10_department_summaries"), Obj(<<>>)),
     Entry(K("discount_categories"), Obj(<<>>)),
     Entry(K("top_10_reference_piids"), Arr(<<>>)),
     Entry(K("top_10_piids"), Arr(<<>>)),
     Entry(K("expiring_by_quarter"), Obj(<<>>)),
     Entry(K("discount_contracts_expiring_by_quarter"), Obj(<<>>)),
     Entry(K("ai_product_status"), Str(K("x"))),
     Entry(K("ai_category_status"), Str(K("x"))),
     Entry(K("top_25_products"), Arr(<<>>)),
     Entry(K("top_15_reseller_summaries"), Obj(<<>>)),
     Entry(K("top_15_resellers"), Arr(<<>>)),
     Entry(K("top_15_resellers"), Obj(<<>>)),
     Entry(K("top_15_manufacturers"), Arr(<<>>)),
     Entry(K("top_10_oem_summaries"), Obj(<<>>)),
     Entry(K("top_10_agency_summaries"), Obj(<<>>)),
     Entry(K("top_10_agencies"), Obj(<<>>)),
     Entry(K("summary"), Obj(<<Entry(K("grand_total"), Num(1000))>>)),
     Entry(K("summary"), Obj(<<>>)) >>
DetectValues ==
  UNION {
    {Obj([i \in 1..k |-> DetectFields[f[i]]]) :
       f \in {g \in [1..k -> 1..Len(DetectFields)] :
                \A i, j \in 1..k :
                  i < j => /\ g[i] < g[j]
                           /\ DetectFields[g[i]].key # DetectFields[g[j]].key}} :
    k \in 0..MaxFields}

cacheVars == <<cache, now, pc, call, prior, loads, cleared, prev, ev, done>>

InitFunctions ==
  /\ InitCache
  /\ currentProcurementEntity = NoEntity
  /\ TablesIdle
  /\ out = NotRun
  /\ \/ \E cell \in Cells : inp = [kind |-> "cell", cell |-> cell]
     \/ \E cell \in PipelineCells, schemaKey \in PipelineKeys :
          inp = [kind |-> "pipeline", cell |-> cell, schemaKey |-> schemaKey]
     \/ \E obj \in PathObjects, path \in Paths :
          inp = [kind |-> "path", obj |-> obj, path |-> path]
     \/ \E sheet \in Sheets \cup TotalsSheets, entityType \in EntityTypes :
          inp = [kind |-> "sheet", sheet |-> sheet, entityType |-> entityType]
     \/ \E row \in Rows : inp = [kind |-> "row", row |-> row]
     \/ \E schemaKey \in SchemaKeys :
          \E value \in ColumnValues(schemaKey) \cup OtherValues \cup {TotalsExample} :
            inp = [kind |-> "value", value |-> value, schemaKey |-> schemaKey]
     \/ \E value \in ColumnValues("smallBusiness") \cup OtherValues :
          inp = [kind |-> "value", value |-> value, schemaKey |-> "notAColumn"]
     \/ \E value \in DetectValues \cup OtherValues :
          inp = [kind |-> "detect", value |-> value, fixture |-> ""]
     \/ \E data \in LoadedCaches, t \in {TickMs, TickMs + TTL} :
          inp = [kind |-> "read", data |-> data, now |-> t]
     \/ \E schemaKey \in SchemaKeys :
          inp = [kind |-> "detect", value |-> COMPLETE_EXAMPLES[schemaKey],
                 fixture |-> schemaKey]

Ran(fn, outcome) == [fn |-> fn, raised |-> outcome.raised, v |-> outcome.v]

Apply(kind, fn, outcome) ==
  /\ inp.kind = kind
  /\ out = NotRun
  /\ out' = Ran(fn, outcome)
  /\ UNCHANGED <<inp, cacheVars, tableVars>>

ApplyParseJSON == Apply("cell", "parseJSON", parseJSON(inp.cell))

ApplyParseJSONColumn == Apply("cell", "parseJSONColumn", parseJSONColumn(inp.cell))

\* entity[key] = this.parseJSON(value), then extractNormalizedData on it
PipelineParseJSON ==
  Apply("pipeline", "parseJSON.extractNormalizedData",
        extractNormalizedData(parseJSON(inp.cell).v, inp.schemaKey))

\* parseAndValidateJson(cell).data, then extractNormalizedData on it
PipelineParseAndValidateJson ==
  Apply("pipeline", "parseAndValidateJson.extractNormalizedData",
        extractNormalizedData(parseAndValidateJson(inp.cell).data, inp.schemaKey))

ApplyGetNestedValue ==
  Apply("path", "getNestedValue", Returned(getNestedValue(inp.obj, inp.path)))

ApplyLoadEntitySheet ==
  Apply("sheet", "loadEntitySheet", loadEntitySheet(inp.sheet, inp.entityType))

ApplyValidateRowJsonColumns ==
  Apply("row", "validateRowJsonColumns",
        LET r == validateRowJsonColumns(inp.row) IN [raised |-> r.raised, v |-> r.results])

ApplyGetFiscalYearData ==
  Apply("value", "getFiscalYearData", getFiscalYearData(inp.value, inp.schemaKey))

ApplyGetCategories ==
  Apply("value", "getCategories", getCategories(inp.value, inp.schemaKey))

ApplyExtractNormalizedData ==
  Apply("value", "extractNormalizedData", extractNormalizedData(inp.value, inp.schemaKey))

\* validateJsonStructure hands back its result, or raises.
ApplyValidateJsonStructure ==
  Apply("value", "validateJsonStructure",
        Let(validateJsonStructure(inp.value, inp.schemaKey),
            LAMBDA result : IF result = Raised THEN Raised ELSE Returned(result)))

ApplyDetectSchema ==
  Apply("detect", "detectSchema", Returned(detectSchema(inp.value)))

\* The extractors, each as the outcome of a call and jsonData as the call
\* leaves it: but for the sort of getTopCategories, no extractor assigns to
\* a property or calls a method that changes its receiver.
Extractors ==
  {"getPrimaryValue", "getFiscalYearData", "getCategories", "getTopCategories",
   "extractNormalizedData"}
TopNs == {1, 10}
Extraction(fn, jsonData, schemaKey, n) ==
  Let(CASE fn = "getPrimaryValue" -> Returned(getPrimaryValue(jsonData, schemaKey))
        [] fn = "getFiscalYearData" -> getFiscalYearData(jsonData, schemaKey)
        [] fn = "getCategories" -> getCategories(jsonData, schemaKey)
        [] fn = "getTopCategories" -> getTopCategories(jsonData, schemaKey, n)
        [] OTHER -> extractNormalizedData(jsonData, schemaKey),
      LAMBDA outcome :
        [raised |-> outcome.raised, v |-> outcome.v,
         jsonData |-> IF fn = "getTopCategories" THEN outcome.jsonData ELSE jsonData])

\* A first call of an extractor on the value: the caller keeps the value it
\* passed (given) beside the object, which the call may have changed.
CallExtractor ==
  /\ inp.kind = "value"
  /\ out = NotRun
  /\ \E fn \in Extractors, n \in TopNs :
       /\ fn # "getTopCategories" => n = 10
       /\ Let(Extraction(fn, inp.value, inp.schemaKey, n), LAMBDA r :
            /\ out' = [fn |-> "first", of |-> fn, n |-> n, raised |-> r.raised, v |-> r.v,
                       given |-> inp.value]
            /\ inp' = [inp EXCEPT !.value = r.jsonData])
  /\ UNCHANGED <<cacheVars, tableVars>>

\* The same call a second time, on the same object.
CallExtractorAgain ==
  /\ inp.kind = "value"
  /\ out.fn = "first"
  /\ Let(Extraction(out.of, inp.value, inp.schemaKey, out.n), LAMBDA r :
       /\ out' = [fn |-> "second", of |-> out.of, n |-> out.n, raised |-> r.raised,
                  v |-> r.v, given |-> out.given,
                  first |-> [raised |-> out.raised, v |-> out.v]]
       /\ inp' = [inp EXCEPT !.value = r.jsonData])
  /\ UNCHANGED <<cacheVars, tableVars>>

\* The views of a loaded cache that needs no refresh.  The caller keeps the
\* arrays the cache held (given) beside the cache, which the call may have
\* changed.
ReadEntitiesForView ==
  /\ inp.kind = "read"
  /\ out = NotRun
  /\ \E viewType \in ViewTypes, options \in ViewOptions :
       Let(getEntitiesForView(inp.data, viewType, options), LAMBDA r :
         /\ out' = [fn |-> "getEntitiesForView", raised |-> FALSE, v |-> r.v,
                    viewType |-> viewType, options |-> options, given |-> inp.data]
         /\ inp' = [inp EXCEPT !.data = r.data])
  /\ UNCHANGED <<cacheVars, tableVars>>

\* getEntities(entityType): the array of the switch; nothing is written.
ReadEntities ==
  /\ inp.kind = "read"
  /\ out = NotRun
  /\ \E entityType \in TypeArgs :
       out' = [fn |-> "getEntities", raised |-> FALSE,
               v |-> ArrayOf(CachedEntities(inp.data, entityType).v),
               from |-> CachedEntities(inp.data, entityType).from, given |-> inp.data]
  /\ UNCHANGED <<inp, cacheVars, tableVars>>

\* getFiscalYearTrends: filter, forEach and Object.entries write nothing.
ReadFiscalYearTrends ==
  /\ inp.kind = "read"
  /\ out = NotRun
  /\ \E entityType \in TypeArgs, columnId \in ColumnIds, selectedEntities \in Selections :
       Let(getFiscalYearTrends(inp.data, entityType, columnId, selectedEntities), LAMBDA r :
         out' = [fn |-> "getFiscalYearTrends", raised |-> r.raised, v |-> r.v,
                 columnId |-> columnId, given |-> inp.data])
  /\ UNCHANGED <<inp, cacheVars, tableVars>>

\* getCacheStatus only reads the cache.
ReadCacheStatus ==
  /\ inp.kind = "read"
  /\ out = NotRun
  /\ out' = [fn |-> "getCacheStatus", raised |-> FALSE, v |-> getCacheStatus(inp.data, inp.now),
             given |-> inp.data]
  /\ UNCHANGED <<inp, cacheVars, tableVars>>

NextFunctions ==
  \/ ApplyParseJSON
  \/ ApplyParseJSONColumn
  \/ PipelineParseJSON
  \/ PipelineParseAndValidateJson
  \/ ApplyGetNestedValue
  \/ ApplyLoadEntitySheet
  \/ ApplyValidateRowJsonColumns
  \/ ApplyGetFiscalYearData
  \/ ApplyGetCategories
  \/ ApplyExtractNormalizedData
  \/ ApplyValidateJsonStructure
  \/ ApplyDetectSchema
  \/ CallExtractor
  \/ CallExtractorAgain
  \/ ReadEntitiesForView
  \/ ReadEntities
  \/ ReadFiscalYearTrends
  \/ ReadCacheStatus

SpecFunctions == InitFunctions /\ [][NextFunctions]_vars

----------------------------------------------------------------------------
(* Properties of the cache                                                 *)

\* The entity type of a cached list, from the place ListId gives its array.
TypeOfList(id) ==
  CASE id % 3 = 1 -> Str(TypeText.agency) [] id % 3 = 2 -> Str(TypeText.oem) [] OTHER -> Str(TypeText.vendor)

\* C1: whenever no load is running, the cache is either populated (all
\* three lists and lastUpdated set) or unset (all four null): it is never
\* partially loaded.  (The states in the middle of a load are left aside.)
C1_NeverPartiallyLoaded ==
  InFlight = {} => (Populated(cache) \/ Unset(cache))

\* C2: when a load has failed, agencies, oems, vendors and lastUpdated hold
\* the values they had when the call that triggered the load began.
C2_FailedLoadKeepsPriorValues ==
  ev.kind = "failed" => Snapshot(cache) = done.prior

\* C3: a load that fails raises the error to the caller that triggered it,
\* and no load, failed or successful, ends with isLoading true.
C3_FailureRaisesAndResetsLoading ==
  /\ ev.kind = "failed" => (done.status = "raised" /\ ~cache.isLoading)
  /\ ev.kind = "loaded" => ~cache.isLoading

C3_Witness ==
  /\ ev.kind = "failed"
  /\ ev.op = "getEntities"
  /\ done.status = "raised"
  /\ done.prior.agencies.id # 0
  /\ ~cache.isLoading

C5_GuardedCallGetsPreviousSnapshot ==
  (ev.kind = "guarded" /\ ev.op = "getEntities" /\ ~cleared) =>
    \A q \in InFlight :
      (prior[q].agencies.id # 0 /\ prior[q].oems.id # 0 /\ prior[q].vendors.id # 0) =>
        /\ done.status = "returned"
        /\ done.parts = (CASE toLowerCase(ev.type) = Str(TypeText.agency) -> <<prior[q].agencies>>
                           [] toLowerCase(ev.type) = Str(TypeText.oem) -> <<prior[q].oems>>
                           [] toLowerCase(ev.type) = Str(TypeText.vendor) -> <<prior[q].vendors>>
                           [] OTHER -> <<prior[q].agencies, prior[q].oems, prior[q].vendors>>)

\* C6: when a getEntities call of one entity type has returned a list and
\* left the cache populated and within the TTL, a getEntities call that
\* comes next (not forcing a refresh) returns from the cache without
\* starting a load, and for the same entity type it returns the same array.
C6_BackToBackSameList ==
  (prev # 0 /\ ev.op = "getEntities" /\ ev.kind \in {"cached", "guarded", "start"}
     /\ ~ev.force) =>
    /\ ev.kind = "cached"
    /\ toLowerCase(ev.type) = TypeOfList(prev) => (done.status = "returned" /\ done.id = prev)

C6_Witness ==
  /\ prev # 0
  /\ ev.op = "getEntities"
  /\ ev.kind = "cached"
  /\ toLowerCase(ev.type) = TypeOfList(prev)
  /\ done.id = prev
  /\ ListEntities(done.parts[1]) # <<>>

----------------------------------------------------------------------------
(* Properties of the functions                                             *)

\* An empty extraction result: no primary value, no fiscal years, no
\* categories.
EmptyExtraction(v) ==
  /\ v.t = "object"
  /\ ~Truthy(GetProp(v, K("primaryValue")))
  /\ GetProp(v, K("fiscalYears")) = Obj(<<>>)
  /\ GetProp(v, K("categories")) = Arr(<<>>)

\* C7: the malformed cell "{not json", parsed by parseJSON or by
\* parseAndValidateJson and handed to extractNormalizedData with any schema
\* key of the registry, gives an empty extraction result and raises nothing.
C7_MalformedCellGivesEmptyExtraction ==
  (inp.kind = "pipeline" /\ out # NotRun /\ inp.cell = MalformedCell
     /\ KnownSchema(inp.schemaKey)) =>
    (~out.raised /\ EmptyExtraction(out.v))

\* A name cell that is not blank: text with something other than white
\* space in it, or a number.
NonBlankName(name) ==
  \/ name.t = "string" /\ Trim(name.s) # <<>>
  \/ name.t = "number" /\ name.n # 0
NamedRows(sheet) ==
  {i \in 2..Len(sheet.values) : NonBlankName(CellAt(sheet.values[i], NameColumn - 1))}

\* C8: loadEntitySheet gives one entity for every row of the sheet that has
\* a non-blank name, and validateRowJsonColumns gives a result for every
\* JSON column, whatever the other rows and cells hold.
C8_NoRowOrCellHaltsTheOthers ==
  /\ (out # NotRun /\ out.fn = "loadEntitySheet") =>
       (~out.raised /\ Len(out.v) = Cardinality(NamedRows(inp.sheet)))
  /\ (out # NotRun /\ out.fn = "validateRowJsonColumns") =>
       (~out.raised /\ DOMAIN out.v = ColumnLetters)

\* The cells that parse to absent: an empty cell, text that trims to '',
\* '{}' or '[]', text that is not valid JSON.
AbsentCell(cell) ==
  \/ Nullish(cell)
  \/ /\ cell.t = "string"
     /\ \/ Trim(cell.s) \in {<<>>, EmptyObjectText, EmptyArrayText}
        \/ JSONParse(Trim(cell.s)).raised

\* C9: parseJSON and parseJSONColumn raise for no cell value, and they
\* return null for an empty cell, for text that trims to '', '{}' or '[]'
\* and for text that is not valid JSON.
C9_CellParsingNeverRaises ==
  (inp.kind = "cell" /\ out # NotRun) =>
    /\ ~out.raised
    /\ AbsentCell(inp.cell) => out.v = JNull

\* Invalid JSON text has been parsed to null.
C9_Witness ==
  /\ inp.kind = "cell"
  /\ out # NotRun
  /\ out.fn = "parseJSONColumn"
  /\ inp.cell.t = "string"
  /\ Trim(inp.cell.s) \notin {<<>>, EmptyObjectText, EmptyArrayText}
  /\ JSONParse(Trim(inp.cell.s)).raised
  /\ out.v = JNull
  /\ ~out.raised

\* The values the walk holds before each key of the path is looked up.
StepValue(obj, keys, i) == WalkPath(obj, SubSeq(keys, 1, i - 1))
NotAMapping(v) == v.t \in {"undefined", "null", "number", "boolean", "string"}

\* C10: getNestedValue raises nothing, and it returns undefined whenever
\* the value at some step of the dotted path, the one a key is looked up in,
\* is absent or not a mapping (null, a number, a boolean, a string).
C10_NotAMappingGivesUndefined ==
  (inp.kind = "path" /\ out # NotRun) =>
    /\ ~out.raised
    /\ (\E i \in 1..Len(SplitDots(inp.path)) :
          NotAMapping(StepValue(inp.obj, SplitDots(inp.path), i))) => out.v = Undef

\* The value stored at a path of keys: each key in turn an own property of
\* the object or array reached so far.
RECURSIVE StoredAt(_, _)
StoredAt(v, keys) ==
  IF keys = <<>> THEN [exists |-> TRUE, v |-> v]
  ELSE IF v.t \in {"object", "array"} /\ \E i \in 1..Len(v.k) : v.k[i].key = Head(keys)
  THEN StoredAt(v.k[CHOOSE i \in 1..Len(v.k) : v.k[i].key = Head(keys)].val, Tail(keys))
  ELSE [exists |-> FALSE, v |-> Undef]

\* C11: whenever every step of the dotted path exists, getNestedValue(obj,
\* path) returns exactly the value stored at the path, at any depth and for
\* any stored value, 0, false, the empty string and null included.
C11_ExistingPathGivesStoredValue ==
  (inp.kind = "path" /\ out # NotRun /\ StoredAt(inp.obj, SplitDots(inp.path)).exists) =>
    /\ ~out.raised
    /\ out.v = StoredAt(inp.obj, SplitDots(inp.path)).v

\* A path of three keys or more that exists and holds null or the empty string.
C11_Witness ==
  /\ inp.kind = "path" /\ out # NotRun
  /\ Len(SplitDots(inp.path)) >= 3
  /\ StoredAt(inp.obj, SplitDots(inp.path)).exists
  /\ out.v \in {JNull, Str(<<>>)}

\* A flat list of {name, value, percentage, fiscalYears}.
FlatList(v) ==
  /\ v.t = "array"
  /\ \A i \in 1..Len(v.k) :
       /\ v.k[i].val.t = "object"
       /\ [j \in 1..Len(v.k[i].val.k) |-> v.k[i].val.k[j].key]
            = <<K("name"), K("value"), K("percentage"), K("fiscalYears")>>

\* C12: for every schema key and every parsed value, getCategories returns
\* a flat list whose elements all have the shape {name, value, percentage,
\* fiscalYears}, be the container at the categories path a map or an array.
C12_CategoriesAreAFlatList ==
  (inp.kind = "value" /\ out.fn = "getCategories") =>
    (~out.raised /\ FlatList(out.v))

\* The container at the categories path of the schema, when the value has
\* one there.
ContainerOf(value, schemaKey) ==
  IF KnownSchema(schemaKey) /\ COLUMN_SCHEMAS(schemaKey).categoriesPath # <<>>
  THEN StoredAt(value, SplitDots(COLUMN_SCHEMAS(schemaKey).categoriesPath)).v
  ELSE Undef

\* An object map of categories where the schema expects an array, or an
\* array of categories where it expects an object map.
ShapeMismatch(value, schemaKey) ==
  /\ ContainerOf(value, schemaKey).t \in {"object", "array"}
  /\ \A i \in 1..Len(ContainerOf(value, schemaKey).k) :
       ContainerOf(value, schemaKey).k[i].val.t = "object"
  /\ (ContainerOf(value, schemaKey).t = "array")
       # (COLUMN_SCHEMAS(schemaKey).categoryValueType = "array")

\* C13: when the container at the categories path is an object map where
\* the schema expects an array, or an array where it expects an object map,
\* getCategories, getFiscalYearData and extractNormalizedData still return
\* a result and raise nothing.
C13_ShapeMismatchStillExtracts ==
  (inp.kind = "value" /\ ShapeMismatch(inp.value, inp.schemaKey)
     /\ out.fn \in {"getCategories", "getFiscalYearData", "extractNormalizedData"}) =>
    ~out.raised

\* Some required field of the schema resolves to nothing in the value.
RequiredFieldAbsent(value, schemaKey) ==
  \E i \in 1..Len(COLUMN_SCHEMAS(schemaKey).requiredFields) :
    ~StoredAt(value, SplitDots(COLUMN_SCHEMAS(schemaKey).requiredFields[i])).exists

\* The value has something other than null at the categories path, and it
\* is not of the kind the schema expects: not an array where the
\* categoryValueType is array, not an object map where it is object_map.
ShapeDisagrees(value, schemaKey) ==
  /\ ContainerOf(value, schemaKey).t \notin {"undefined", "null"}
  /\ \/ /\ COLUMN_SCHEMAS(schemaKey).categoryValueType = "array"
        /\ ContainerOf(value, schemaKey).t # "array"
     \/ /\ COLUMN_SCHEMAS(schemaKey).categoryValueType = "object_map"
        /\ ContainerOf(value, schemaKey).t # "object"

\* C14: for a known schema key and an object value, validateJsonStructure
\* gives isValid = false whenever a required field resolves to absent or
\* the kind of the categories container disagrees with categoryValueType;
\* and in every result it returns isValid is true exactly when the errors
\* list is empty.
C14_ErrorsMakeInvalid ==
  (inp.kind = "value" /\ out.fn = "validateJsonStructure" /\ ~out.raised) =>
    /\ out.v.isValid = (out.v.errors = <<>>)
    /\ (KnownSchema(inp.schemaKey) /\ inp.value.t \in {"object", "array"}
          /\ (RequiredFieldAbsent(inp.value, inp.schemaKey)
               \/ ShapeDisagrees(inp.value, inp.schemaKey)))
        => ~out.v.isValid

\* A value with every required field and a container of the wrong kind,
\* found invalid.
C14_Witness ==
  /\ inp.kind = "value" /\ out.fn = "validateJsonStructure" /\ ~out.raised
  /\ KnownSchema(inp.schemaKey) /\ inp.value.t = "object"
  /\ ~RequiredFieldAbsent(inp.value, inp.schemaKey)
  /\ ShapeDisagrees(inp.value, inp.schemaKey)
  /\ ~out.v.isValid /\ out.v.errors # <<>>

\* The primary value of the schema as the value holds it, undefined when
\* the value has nothing at the primary value path.
PrimaryOf(value, schemaKey) ==
  StoredAt(value, SplitDots(COLUMN_SCHEMAS(schemaKey).primaryValuePath)).v

\* Nothing else is wrong with the value: every required field other than
\* the path in question is there, and the categories container, if there,
\* is of the expected kind.
SoundBut(value, schemaKey, path) ==
  /\ \A i \in 1..Len(COLUMN_SCHEMAS(schemaKey).requiredFields) :
       \/ COLUMN_SCHEMAS(schemaKey).requiredFields[i] = path
       \/ StoredAt(value, SplitDots(COLUMN_SCHEMAS(schemaKey).requiredFields[i])).exists
  /\ ~ShapeDisagrees(value, schemaKey)

\* C15: for every schema with a categories path, a value with all the
\* required fields and nothing at the categories path is valid, with a
\* warning; and an absent or non-numeric primary value gives a warning only,
\* it does not make isValid false.
C15_AbsentPathsOnlyWarn ==
  (inp.kind = "value" /\ out.fn = "validateJsonStructure" /\ ~out.raised
     /\ KnownSchema(inp.schemaKey) /\ inp.value.t = "object") =>
    /\ (COLUMN_SCHEMAS(inp.schemaKey).categoriesPath # <<>>
          /\ ~RequiredFieldAbsent(inp.value, inp.schemaKey)
          /\ ContainerOf(inp.value, inp.schemaKey) = Undef)
        => (out.v.isValid /\ out.v.warnings # <<>>)
    /\ (COLUMN_SCHEMAS(inp.schemaKey).primaryValuePath # <<>>
          /\ PrimaryOf(inp.value, inp.schemaKey).t # "number"
          /\ SoundBut(inp.value, inp.schemaKey,
                      COLUMN_SCHEMAS(inp.schemaKey).primaryValuePath))
        => (out.v.isValid /\ out.v.warnings # <<>>)

\* C16: validateJsonStructure raises nothing: for every value, object,
\* array, null or scalar, and every schema key, of the registry or not, it
\* returns a result {isValid, errors, warnings}.
C16_ValidatorNeverRaises ==
  (inp.kind = "value" /\ out.fn = "validateJsonStructure") =>
    /\ ~out.raised
    /\ DOMAIN out.v = {"isValid", "errors", "warnings"}
    /\ out.v.isValid \in BOOLEAN

\* The validator has run on a value that is no object, and on a key that
\* is not in the registry.
C16_Witness ==
  /\ inp.kind = "value" /\ out.fn = "validateJsonStructure"
  /\ inp.value.t # "object" /\ ~KnownSchema(inp.schemaKey)
  /\ ~out.v.isValid

\* C17: detectSchema makes its checks in one fixed order and returns the
\* schema key of the first check the value passes, so a value passing
\* several checks gets the earliest; it returns null for a value that is
\* not an object and for a value that passes no check.
C17_FirstMatchingFingerprintWins ==
  (inp.kind = "detect" /\ out.fn = "detectSchema") =>
    /\ ~out.raised
    /\ inp.value.t \notin {"object", "array"} => out.v = JNull
    /\ inp.value.t \in {"object", "array"} =>
         /\ \A i \in 1..Len(Fingerprints(inp.value)) :
              (Fingerprints(inp.value)[i][2]
                 /\ \A j \in 1..(i - 1) : ~Fingerprints(inp.value)[j][2])
              => out.v = Str(K(Fingerprints(inp.value)[i][1]))
         /\ (\A i \in 1..Len(Fingerprints(inp.value)) : ~Fingerprints(inp.value)[i][2])
              => out.v = JNull

\* A value that passes two checks and gets the key of the earlier one.
C17_Witness ==
  /\ inp.kind = "detect" /\ out.fn = "detectSchema"
  /\ inp.value.t = "object"
  /\ \E i, j \in 1..Len(Fingerprints(inp.value)) :
       /\ i < j
       /\ Fingerprints(inp.value)[i][2] /\ Fingerprints(inp.value)[j][2]
       /\ out.v = Str(K(Fingerprints(inp.value)[i][1]))

\* C18: for every column of the registry, detectSchema applied to the
\* example of the column in COMPLETE_EXAMPLES returns the schema key of
\* that column.
C18_ExamplesDetectTheirOwnSchema ==
  (inp.kind = "detect" /\ inp.fixture # "" /\ out.fn = "detectSchema") =>
    out.v = Str(K(inp.fixture))

\* The examples of the obligations column and of the column checked last.
C18_Witness ==
  /\ inp.kind = "detect" /\ out.fn = "detectSchema"
  /\ inp.fixture = "bicTopProductsPerAgency"
  /\ out.v = Str(K("bicTopProductsPerAgency"))

\* A well-formed value of the column with n categories: every required
\* field, the grand total as primary value, the yearly totals as time
\* series, and the categories in a container of the kind the schema names.
WellFormed(schemaKey, n) ==
  ColumnValue(schemaKey, Num(1000 * n), Series(schemaKey, n),
              Container(schemaKey,
                        IF COLUMN_SCHEMAS(schemaKey).categoryValueType = "array"
                        THEN "array" ELSE "map", n),
              <<>>)

\* The sum of the amounts of a mapping from fiscal year to amount; -1 when
\* the value is no such mapping.
RECURSIVE SumAmounts(_)
SumAmounts(entries) ==
  IF entries = <<>> THEN 0
  ELSE IF Head(entries).val.t # "number" \/ SumAmounts(Tail(entries)) = -1 THEN -1
  ELSE Head(entries).val.n + SumAmounts(Tail(entries))

\* C19: for every pattern but the flat profile, extraction on a well-formed
\* value returns a primary value equal to the sum of the fiscal-year
\* amounts it returns for that value; for the flat profile it returns no
\* primary value.
C19_PrimaryIsSumOfFiscalYears ==
  (inp.kind = "value" /\ out.fn = "extractNormalizedData" /\ KnownSchema(inp.schemaKey)
     /\ \E n \in 1..MaxItems : inp.value = WellFormed(inp.schemaKey, n)) =>
    /\ ~out.raised
    /\ IF COLUMN_SCHEMAS(inp.schemaKey).structurePattern = "PATTERN_F_FLAT_PROFILE"
       THEN GetProp(out.v, K("primaryValue")) = Undef
       ELSE /\ GetProp(out.v, K("primaryValue")).t = "number"
            /\ GetProp(out.v, K("fiscalYears")).t = "object"
            /\ GetProp(out.v, K("primaryValue")).n
                 = SumAmounts(GetProp(out.v, K("fiscalYears")).k)

\* C20: for a column of simple totals, extraction returns as primary value
\* the value at the primary value path, as fiscal years the mapping at the
\* time series path, and no categories; for {total_obligated: 1000,
\* fiscal_year_obligations: {2022: 400, 2023: 600}} it returns 1000,
\* {2022: 400, 2023: 600} and [].
C20_SimpleTotalsExtraction ==
  (inp.kind = "value" /\ out.fn = "extractNormalizedData" /\ KnownSchema(inp.schemaKey)
     /\ COLUMN_SCHEMAS(inp.schemaKey).structurePattern = "PATTERN_A_SIMPLE_TOTALS"
     /\ inp.value.t = "object") =>
    /\ ~out.raised
    /\ GetProp(out.v, K("primaryValue"))
         = StoredAt(inp.value, SplitDots(COLUMN_SCHEMAS(inp.schemaKey).primaryValuePath)).v
    /\ GetProp(out.v, K("fiscalYears"))
         = StoredAt(inp.value, SplitDots(COLUMN_SCHEMAS(inp.schemaKey).timeSeriesPath)).v
    /\ GetProp(out.v, K("categories")) = Arr(<<>>)
    /\ (inp.value = TotalsExample /\ inp.schemaKey = "obligations") =>
         /\ GetProp(out.v, K("primaryValue")) = Num(1000)
         /\ GetProp(out.v, K("fiscalYears")) = YearMap(Num(400), Num(600))

\* The example has been extracted under the obligations key.
C20_Witness ==
  /\ inp.kind = "value" /\ out.fn = "extractNormalizedData"
  /\ inp.value = TotalsExample /\ inp.schemaKey = "obligations"
  /\ GetProp(out.v, K("primaryValue")) = Num(1000)
  /\ GetProp(out.v, K("categories")) = Arr(<<>>)

C22_RefreshExactlyWhenStale ==
  [][(ev'.op \in {"getEntities", "loadAllData"} /\ ev'.kind \in {"cached", "guarded", "start"})
     => /\ ev'.kind = "cached"
             <=> /\ ~ev'.force
                 /\ ~(\/ cache.lastUpdated = 0
                      \/ cache.agencies.id = 0 \/ cache.oems.id = 0 \/ cache.vendors.id = 0
                      \/ now - cache.lastUpdated > 120000)
        /\ ev'.kind = "cached" => (cache' = cache /\ loads' = loads /\ pc' = pc)]_vars

\* A call served from a cache whose age is exactly the TTL.
C22_Witness ==
  /\ ev.kind = "cached" /\ ev.op \in {"getEntities", "loadAllData"}
  /\ Populated(cache)
  /\ now - cache.lastUpdated = 120000

\* The first value of a list that is neither undefined nor null, undefined
\* when there is none.
RECURSIVE FirstPresent(_)
FirstPresent(values) ==
  IF values = <<>> THEN Undef
  ELSE IF ~Nullish(Head(values)) THEN Head(values)
  ELSE FirstPresent(Tail(values))

\* The totals an entity offers: the primary value of its obligations
\* column, the total of its tier column, the sum of its fiscal-year amounts.
TotalsOf(entity) ==
  <<getPrimaryValue(GetProp(entity, K("obligations")), "obligations"),
    getPrimaryValue(GetProp(entity, K("oneGovTier")), "oneGovTier"),
    IF OptProp(GetProp(entity, K("obligations")), K("fiscal_year_obligations")).t = "object"
    THEN Num(SumAmounts(GetProp(GetProp(entity, K("obligations")),
                                K("fiscal_year_obligations")).k))
    ELSE Undef>>

\* C23: the totalObligations of each loaded entity is the first that is not
\* absent of the primary value extracted from its obligations column, the
\* total of its tier column, and the sum of its fiscal-year amounts.
C23_TotalIsFirstPresent ==
  (inp.kind = "sheet" /\ out.fn = "loadEntitySheet" /\ inp.sheet \in TotalsSheets) =>
    /\ ~out.raised
    /\ \A i \in 1..Len(out.v) :
         FirstPresent(TotalsOf(out.v[i])) # Undef =>
           GetProp(out.v[i], K("totalObligations")) = FirstPresent(TotalsOf(out.v[i]))

\* C24: for an object-map container, the value of each category is read
\* from the field the schema names as itemValueField, and from total when
\* the schema names none, whatever fields the entry holds.
C24_ValueFieldComesFromSchema ==
  (inp.kind = "value" /\ out.fn = "getCategories" /\ ~out.raised
     /\ KnownSchema(inp.schemaKey)
     /\ COLUMN_SCHEMAS(inp.schemaKey).categoryValueType = "object_map"
     /\ ContainerOf(inp.value, inp.schemaKey).t = "object") =>
    /\ Len(out.v.k) = Len(ContainerOf(inp.value, inp.schemaKey).k)
    /\ \A i \in 1..Len(out.v.k) :
         GetProp(out.v.k[i].val, K("value"))
           = GetProp(ContainerOf(inp.value, inp.schemaKey).k[i].val,
                     IF COLUMN_SCHEMAS(inp.schemaKey).itemValueField # <<>>
                     THEN COLUMN_SCHEMAS(inp.schemaKey).itemValueField
                     ELSE K("total"))

\* The fiscal years the categories of an object map carry, and the sum of
\* the amounts of one year over the categories.
YearsOf(cats) ==
  UNION {{GetProp(cats[i].val, K("fiscal_years")).k[j].key :
            j \in 1..Len(GetProp(cats[i].val, K("fiscal_years")).k)} : i \in 1..Len(cats)}
RECURSIVE SumOfYear(_, _)
SumOfYear(cats, year) ==
  IF cats = <<>> THEN 0
  ELSE StoredAt(Head(cats).val, <<K("fiscal_years"), year>>).v.n + SumOfYear(Tail(cats), year)

\* C25: for a column without a time series path whose categories container
\* is an object map, getFiscalYearData returns, for each year that appears
\* in the fiscal_years of some category, the sum of the amounts of that year
\* over all categories, and undefined when no category carries a year.
C25_YearlySumsOverCategories ==
  (inp.kind = "value" /\ out.fn = "getFiscalYearData" /\ KnownSchema(inp.schemaKey)
     /\ COLUMN_SCHEMAS(inp.schemaKey).timeSeriesPath = <<>>
     /\ ContainerOf(inp.value, inp.schemaKey).t = "object"
     /\ \A i \in 1..Len(ContainerOf(inp.value, inp.schemaKey).k) :
          ContainerOf(inp.value, inp.schemaKey).k[i].val.t = "object") =>
    /\ ~out.raised
    /\ IF YearsOf(ContainerOf(inp.value, inp.schemaKey).k) = {} THEN out.v = Undef
       ELSE /\ out.v.t = "object"
            /\ {out.v.k[j].key : j \in 1..Len(out.v.k)}
                 = YearsOf(ContainerOf(inp.value, inp.schemaKey).k)
            /\ \A j \in 1..Len(out.v.k) :
                 out.v.k[j].val
                   = Num(SumOfYear(ContainerOf(inp.value, inp.schemaKey).k, out.v.k[j].key))
            /\ \A j, l \in 1..Len(out.v.k) : out.v.k[j].key = out.v.k[l].key => j = l

\* Two categories that share one of their fiscal years have been summed.
C25_Witness ==
  /\ inp.kind = "value" /\ out.fn = "getFiscalYearData" /\ ~out.raised
  /\ inp.schemaKey = "smallBusiness"
  /\ out.v = Obj(<<Entry(<<"2", "0", "2", "2">>, Num(400)),
                   Entry(<<"2", "0", "2", "3">>, Num(1200)),
                   Entry(<<"2", "0", "2", "4">>, Num(400))>>)

\* The labels in the top lists of the fiscal years, and the sum of the
\* amounts of one label over the top lists of all years.
LabelsOf(years, schemaKey) ==
  UNION {{GetProp(GetProp(years[i].val, TopListField(schemaKey)).k[j].val,
                  LabelField(schemaKey)) :
            j \in 1..Len(GetProp(years[i].val, TopListField(schemaKey)).k)} :
         i \in 1..Len(years)}
RECURSIVE SumOfLabelIn(_, _, _)
SumOfLabelIn(list, schemaKey, label) ==
  IF list = <<>> THEN 0
  ELSE (IF GetProp(Head(list).val, LabelField(schemaKey)) = label
        THEN GetProp(Head(list).val, K("obligations")).n ELSE 0)
       + SumOfLabelIn(Tail(list), schemaKey, label)
RECURSIVE SumOfLabel(_, _, _)
SumOfLabel(years, schemaKey, label) ==
  IF years = <<>> THEN 0
  ELSE SumOfLabelIn(GetProp(Head(years).val, TopListField(schemaKey)).k, schemaKey, label)
       + SumOfLabel(Tail(years), schemaKey, label)

\* C26: for a column nested by fiscal year, the categories returned are
\* flattened across the years: one entry for each category label, its value
\* the sum of the amounts of that label over the top list of every year.
C26_CategoriesFlattenedAcrossYears ==
  (inp.kind = "value" /\ out.fn = "getCategories"
     /\ inp.schemaKey \in {"aiProduct", "aiCategory"}
     /\ \E n \in 1..MaxItems : inp.value = WellFormed(inp.schemaKey, n)) =>
    /\ ~out.raised
    /\ {GetProp(out.v.k[j].val, K("name")) : j \in 1..Len(out.v.k)}
         = LabelsOf(ContainerOf(inp.value, inp.schemaKey).k, inp.schemaKey)
    /\ \A j \in 1..Len(out.v.k) :
         GetProp(out.v.k[j].val, K("value"))
           = Num(SumOfLabel(ContainerOf(inp.value, inp.schemaKey).k, inp.schemaKey,
                            GetProp(out.v.k[j].val, K("name"))))

\* C27: once a load has completed, no read of the cache layer
\* (getEntities, getEntitiesForView with any view type and filters and the
\* transformations it applies, getFiscalYearTrends, getCacheStatus) changes
\* the cached entity lists, their order or any cached entity.
C27_ReadsLeaveTheCacheAlone ==
  (inp.kind = "read" /\ out # NotRun) => inp.data = out.given

\* The report builder has ranked the entities of a cached array, handed to
\* it unfiltered, in another order than the array holds them.
C27_Witness ==
  /\ inp.kind = "read" /\ out.fn = "getEntitiesForView"
  /\ out.viewType = "reportBuilder"
  /\ out.options.entityType = Str(TypeText.agency)
  /\ ~Truthy(out.options.selectedEntities) /\ ~Truthy(out.options.parentFilter)
  /\ Len(out.v.k) = 2
  /\ GetProp(out.v.k[1].val, K("name")) = GetProp(inp.data.agencies[2], K("name"))

\* C28: in every cache state getEntities(type) returns a list: for agency,
\* oem or vendor in any letter case the cached list of that type, for a
\* missing or unrecognised type the concatenation of the three lists; it
\* never returns a null list and never raises over a null list, a call made
\* while a first load is in flight included.
C28_GetEntitiesReturnsAList ==
  (ev.op = "getEntities" /\ ev.kind \in {"cached", "guarded", "loaded"}) =>
    /\ done.status = "returned"
    /\ done.id # 0
    /\ done.parts =
         (CASE toLowerCase(ev.type) = Str(TypeText.agency) -> <<cache.agencies>>
            [] toLowerCase(ev.type) = Str(TypeText.oem) -> <<cache.oems>>
            [] toLowerCase(ev.type) = Str(TypeText.vendor) -> <<cache.vendors>>
            [] OTHER -> <<cache.agencies, cache.oems, cache.vendors>>)

\* The JSON columns of the column mapping of an entity type: the pairs of
\* key and 1-based position whose key isJsonColumn accepts.
JsonColumnsOf(entityType) ==
  {columnMappings(entityType).columns[j] :
     j \in {c \in 1..Len(columnMappings(entityType).columns) :
              isJsonColumn(columnMappings(entityType).columns[c][1])}}

\* C29: every JSON column stored on a loaded entity is keyed by a key of
\* the schema registry, and its 1-based position in the column mapping is
\* the columnIndex of the registry plus one.
C29_JsonColumnsAgreeWithRegistry ==
  (inp.kind = "sheet" /\ out.fn = "loadEntitySheet" /\ ~out.raised) =>
    \A i \in 1..Len(out.v) :
      \A c \in JsonColumnsOf(inp.entityType) :
        GetProp(out.v[i], K(c[1])) # Undef =>
          /\ KnownSchema(c[1])
          /\ c[2] = COLUMN_SCHEMAS(c[1]).columnIndex + 1

----------------------------------------------------------------------------
(* Procurement tables: the pages of the FAS and BIC tables                 *)

\* The pages asked for, and the page requests issued in one behaviour.
MaxPage == 3
MaxRequests == 3

\* The data rows of the CSV file behind a table URL, numbered from 1: two
\* full pages and a part of a third for the FAS table, none for the BIC
\* table.
CsvRows(tableUrl) == IF tableUrl = "fas.csv" THEN 2 * ItemsPerPage + 10 ELSE 0

\* loadTableDataLegacy(tableUrl, page) when the file can be read: the rows
\* of the page, data.slice(startIndex, startIndex + itemsPerPage), and
\* Math.ceil(data.length / itemsPerPage) pages.
loadTableDataLegacy(tableUrl, page) ==
  IF CsvRows(tableUrl) = 0
  THEN [success |-> TRUE, data |-> <<>>, totalPages |-> 0,
        currentPage |-> page, itemsPerPage |-> ItemsPerPage]
  ELSE [success |-> TRUE,
        data |-> [i \in 1..(IF (page - 1) * ItemsPerPage >= CsvRows(tableUrl) THEN 0
                            ELSE IF page * ItemsPerPage <= CsvRows(tableUrl)
                            THEN ItemsPerPage
                            ELSE CsvRows(tableUrl) - (page - 1) * ItemsPerPage)
                    |-> (page - 1) * ItemsPerPage + i],
        totalPages |-> (CsvRows(tableUrl) + ItemsPerPage - 1) \div ItemsPerPage,
        currentPage |-> page, itemsPerPage |-> ItemsPerPage]

\* loadTableData(tableUrl, page) as the frontend calls it: the second
\* argument is a number, so the legacy format is taken, page || 1.
loadTableData(tableUrl, page) ==
  loadTableDataLegacy(tableUrl, IF page = 0 THEN 1 ELSE page)

\* The table state loadFasPage and loadBicPage store for a result:
\* totalPages || 1 and itemsPerPage || 25.
StoredPage(tableData, page) ==
  [data |-> tableData.data,
   pagination |-> [currentPage |-> page,
                   totalPages |-> IF tableData.totalPages = 0 THEN 1
                                  ELSE tableData.totalPages,
                   itemsPerPage |-> IF tableData.itemsPerPage = 0 THEN ItemsPerPage
                                    ELSE tableData.itemsPerPage],
   isLoading |-> FALSE]

\* renderFasTable() / renderBicTable() on the table stored: the status
\* line with the number of records, and the table or the notice that there
\* is no data.
Rendered(tableData) ==
  [status |-> [text |-> "Showing", n |-> Len(tableData.data)],
   content |-> IF Len(tableData.data) = 0 THEN "empty" ELSE "table"]

\* The catch block: the status line and the content with the retry button.
ErrorShown == [status |-> [text |-> "Error loading data", n |-> 0], content |-> "error"]

Request(table, tableUrl, page, seq) ==
  [table |-> table, tableUrl |-> tableUrl, page |-> page, seq |-> seq]

\* loadFasPage(page) up to its await; with no entity it returns at once
\* and nothing changes.
loadFasPage(page) ==
  /\ currentProcurementEntity.exists
  /\ Len(issued.fas) + Len(issued.bic) < MaxRequests
  /\ fasTableData' = [fasTableData EXCEPT !.isLoading = TRUE]
  /\ dom' = [dom EXCEPT !.fas.status = [text |-> "Loading page", n |-> page]]
  /\ inFlight' = inFlight \cup {Request("fas", currentProcurementEntity.fasTableUrl,
                                        page, Len(issued.fas) + 1)}
  /\ issued' = [issued EXCEPT !.fas = Append(@, [page |-> page, answer |-> "none"])]
  /\ UNCHANGED <<currentProcurementEntity, bicTableData, inp, out, cacheVars>>

\* loadBicPage(page) up to its await.
loadBicPage(page) ==
  /\ currentProcurementEntity.exists
  /\ Len(issued.fas) + Len(issued.bic) < MaxRequests
  /\ bicTableData' = [bicTableData EXCEPT !.isLoading = TRUE]
  /\ dom' = [dom EXCEPT !.bic.status = [text |-> "Loading page", n |-> page]]
  /\ inFlight' = inFlight \cup {Request("bic", currentProcurementEntity.bicTableUrl,
                                        page, Len(issued.bic) + 1)}
  /\ issued' = [issued EXCEPT !.bic = Append(@, [page |-> page, answer |-> "none"])]
  /\ UNCHANGED <<currentProcurementEntity, fasTableData, inp, out, cacheVars>>

\* The success handler of a FAS request resolves the promise and
\* loadFasPage goes on after its await: the table is replaced and rendered.
FasPageLoaded ==
  \E r \in inFlight :
    /\ r.table = "fas"
    /\ inFlight' = inFlight \ {r}
    /\ fasTableData' = StoredPage(loadTableData(r.tableUrl, r.page), r.page)
    /\ dom' = [dom EXCEPT !.fas = Rendered(fasTableData')]
    /\ issued' = [issued EXCEPT !.fas[r.seq].answer = "loaded"]
    /\ UNCHANGED <<currentProcurementEntity, bicTableData, inp, out, cacheVars>>

\* The backend answers success: false, or the failure handler runs: the
\* promise is rejected and loadFasPage goes on in its catch block.
FasPageFailed ==
  \E r \in inFlight :
    /\ r.table = "fas"
    /\ inFlight' = inFlight \ {r}
    /\ fasTableData' = [fasTableData EXCEPT !.isLoading = FALSE]
    /\ dom' = [dom EXCEPT !.fas = ErrorShown]
    /\ issued' = [issued EXCEPT !.fas[r.seq].answer = "failed"]
    /\ UNCHANGED <<currentProcurementEntity, bicTableData, inp, out, cacheVars>>

BicPageLoaded ==
  \E r \in inFlight :
    /\ r.table = "bic"
    /\ inFlight' = inFlight \ {r}
    /\ bicTableData' = StoredPage(loadTableData(r.tableUrl, r.page), r.page)
    /\ dom' = [dom EXCEPT !.bic = Rendered(bicTableData')]
    /\ issued' = [issued EXCEPT !.bic[r.seq].answer = "loaded"]
    /\ UNCHANGED <<currentProcurementEntity, fasTableData, inp, out, cacheVars>>

BicPageFailed ==
  \E r \in inFlight :
    /\ r.table = "bic"
    /\ inFlight' = inFlight \ {r}
    /\ bicTableData' = [bicTableData EXCEPT !.isLoading = FALSE]
    /\ dom' = [dom EXCEPT !.bic = ErrorShown]
    /\ issued' = [issued EXCEPT !.bic[r.seq].answer = "failed"]
    /\ UNCHANGED <<currentProcurementEntity, fasTableData, inp, out, cacheVars>>

InitTables ==
  /\ InitCache
  /\ inp = NoInput
  /\ out = NotRun
  /\ currentProcurementEntity \in {NoEntity, ProcurementEntity}
  /\ TablesIdle

CallLoadFasPage == \E page \in 1..MaxPage : loadFasPage(page)
CallLoadBicPage == \E page \in 1..MaxPage : loadBicPage(page)

NextTables ==
  \/ CallLoadFasPage
  \/ CallLoadBicPage
  \/ FasPageLoaded
  \/ FasPageFailed
  \/ BicPageLoaded
  \/ BicPageFailed

SpecTables == InitTables /\ [][NextTables]_vars

\* Every request of a table has been answered with the page asked for.
AllLoaded(requests, table) ==
  /\ requests # <<>>
  /\ \A r \in inFlight : r.table # table
  /\ \A i \in 1..Len(requests) : requests[i].answer = "loaded"

\* C30: when all the responses to the page requests of a table have
\* arrived, the table holds the page of the request issued last: a late
\* response to an older request does not replace the result of a newer one.
C30_LatestRequestWins ==
  /\ AllLoaded(issued.fas, "fas") =>
       fasTableData = StoredPage(loadTableData(currentProcurementEntity.fasTableUrl,
                                               issued.fas[Len(issued.fas)].page),
                                 issued.fas[Len(issued.fas)].page)
  /\ AllLoaded(issued.bic, "bic") =>
       bicTableData = StoredPage(loadTableData(currentProcurementEntity.bicTableUrl,
                                               issued.bic[Len(issued.bic)].page),
                                 issued.bic[Len(issued.bic)].page)

====
